---- MODULE Spec2Model ----
(***************************************************************************)
(* A model of gvdot (src/src/gvdot.py): the Dot/Block graph builder, its   *)
(* theme (attribute inheritance) chain, the Nonce resolver and the DOT     *)
(* statement generator.                                                    *)
(*                                                                         *)
(* Representation of Python values.                                        *)
(*   text            [t |-> "str", s |-> "abc"]                            *)
(*   int             [t |-> "int", i |-> 12]                               *)
(*   bool            [t |-> "bool", b |-> TRUE]                            *)
(*   Markup(m)       [t |-> "markup", m |-> "x"]                           *)
(*   Nonce(prefix)   [t |-> "nonce", id |-> n, prefix |-> "p"]             *)
(*                   (id is the object identity of the Nonce)              *)
(*   None            [t |-> "none"]                                        *)
(*   any other value [t |-> "other"]                                       *)
(*   Port(node,name,cp)  [t |-> "port", node |-> v, name |-> v, cp |-> v]  *)
(* A normalized ID (_NormID) is a text or a Nonce value.  An ordered       *)
(* Python dict is a sequence of [k |-> key, v |-> value] entries with      *)
(* distinct keys, in insertion order.  Python objects that are mutated in  *)
(* place (Dot, Block, _Edge) live in sequences indexed by their identity.  *)
(***************************************************************************)
EXTENDS Integers, Sequences, FiniteSets, TLC

None == [t |-> "none"]

StrV(s) == [t |-> "str", s |-> s]

IntV(i) == [t |-> "int", i |-> i]

BoolV(b) == [t |-> "bool", b |-> b]

Markup(m) == [t |-> "markup", m |-> m]

Nonce(id, prefix) == [t |-> "nonce", id |-> id, prefix |-> prefix]

Other == [t |-> "other"]

Port(node, name, cp) == [t |-> "port", node |-> node, name |-> name, cp |-> cp]

IsNone(v) == v.t = "none"

IsText(v) == v.t = "str"

IsNonce(v) == v.t = "nonce"

(***************************************************************************)
(* Characters and the regular expressions of _normalize.                   *)
(***************************************************************************)
Char(s, i) == SubSeq(s, i, i)

Letters ==
    {"a","b","c","d","e","f","g","h","i","j","k","l","m",
     "n","o","p","q","r","s","t","u","v","w","x","y","z",
     "A","B","C","D","E","F","G","H","I","J","K","L","M",
     "N","O","P","Q","R","S","T","U","V","W","X","Y","Z"}

Digits == {"0","1","2","3","4","5","6","7","8","9"}

AllIn(s, from, to, chars) == \A i \in from..to : Char(s, i) \in chars

\* [a-zA-Z_][a-zA-Z0-9_]*
IsIdentifier(s) ==
    /\ Len(s) >= 1
    /\ Char(s, 1) \in Letters \cup {"_"}
    /\ AllIn(s, 2, Len(s), Letters \cup Digits \cup {"_"})

\* [.][0-9]+|[0-9]+([.][0-9]*)?
IsUnsignedNumeral(s) ==
    \/ /\ Len(s) >= 2
       /\ Char(s, 1) = "."
       /\ AllIn(s, 2, Len(s), Digits)
    \/ \E k \in 1..Len(s) :
          /\ AllIn(s, 1, k, Digits)
          /\ \/ k = Len(s)
             \/ /\ Char(s, k + 1) = "."
                /\ AllIn(s, k + 2, Len(s), Digits)

\* -?([.][0-9]+|[0-9]+([.][0-9]*)?)
IsNumeral(s) ==
    IF Len(s) >= 1 /\ Char(s, 1) = "-"
    THEN IsUnsignedNumeral(SubSeq(s, 2, Len(s)))
    ELSE IsUnsignedNumeral(s)

SIMPLE_ID_RE_fullmatch(s) == IsIdentifier(s) \/ IsNumeral(s)

\* a slip: edge is not taken for a reserved word
RESERVED_IDS_noedge == {"strict", "graph", "digraph", "node", "subgraph"}

RESERVED_IDS == {"strict", "graph", "digraph", "node", "edge", "subgraph"}

NEEDESCAPE_RE_search(s) ==
    \E i \in 1..Len(s) : Char(s, i) \in {"\"", "\n", "\r", "\\"}

\* str.replace(old, new): every non-overlapping occurrence, left to right
RECURSIVE str_replace(_, _, _)
str_replace(s, old, new) ==
    IF Len(s) < Len(old) THEN s
    ELSE IF SubSeq(s, 1, Len(old)) = old
         THEN new \o str_replace(SubSeq(s, Len(old) + 1, Len(s)), old, new)
         ELSE Char(s, 1) \o str_replace(SubSeq(s, 2, Len(s)), old, new)

\* str(x) for a text or an int
str_of(v) == IF v.t = "int" THEN ToString(v.i) ELSE v.s

IsID(v) == v.t \in {"nonce", "bool", "markup", "str", "int"}

\* a variant: a text in double quotes is taken for normalized already
normalize_keepquoted(v) ==
    CASE v.t = "nonce"  -> v
      [] v.t = "bool"   -> StrV(IF v.b THEN "true" ELSE "false")
      [] v.t = "markup" -> StrV("<" \o v.m \o ">")
      [] OTHER ->
           LET s == str_of(v) IN
           IF SIMPLE_ID_RE_fullmatch(s) /\ s \notin RESERVED_IDS
           THEN StrV(s)
           ELSE IF Len(s) >= 2 /\ Char(s, 1) = "\"" /\ Char(s, Len(s)) = "\""
           THEN StrV(s)
           ELSE LET e1 == str_replace(s, "\\", "\\\\")
                    e2 == str_replace(e1, "\"", "\\\"")
                    e3 == str_replace(e2, "\r\n", "\\n")
                    e4 == str_replace(e3, "\n", "\\n")
                IN  StrV("\"" \o (IF NEEDESCAPE_RE_search(s) THEN e4 ELSE s)
                              \o "\"")

\* _normalize: the normalized ID of an ID; callers test IsID first, the
\* remaining case of the match statement raises ValueError
normalize(v) ==
    CASE v.t = "nonce"  -> v
      [] v.t = "bool"   -> StrV(IF v.b THEN "true" ELSE "false")
      [] v.t = "markup" -> StrV("<" \o v.m \o ">")
      [] OTHER ->
           LET s == str_of(v) IN
           IF SIMPLE_ID_RE_fullmatch(s) /\ s \notin RESERVED_IDS
           THEN StrV(s)
           ELSE LET e1 == str_replace(s, "\\", "\\\\")
                    e2 == str_replace(e1, "\"", "\\\"")
                    e3 == str_replace(e2, "\r\n", "\\n")
                    e4 == str_replace(e3, "\n", "\\n")
                IN  StrV("\"" \o (IF NEEDESCAPE_RE_search(s) THEN e4 ELSE s)
                              \o "\"")

\* The characters in code point order (Python compares str by code point);
\* the grave accent, which a TLA+ string cannot hold, is left out
CodePoints ==
    "\t\n\r !\"#$%&'()*+,-./0123456789:;<=>?@ABCDEFGHIJKLMNOPQRSTUVWXYZ[\\]^_abcdefghijklmnopqrstuvwxyz{|}~"

CharCode(c) == CHOOSE i \in 1..Len(CodePoints) : Char(CodePoints, i) = c

\* a < b for Python str
RECURSIVE str_less(_, _)
str_less(a, b) ==
    IF Len(b) = 0 THEN FALSE
    ELSE IF Len(a) = 0 THEN TRUE
    ELSE IF Char(a, 1) = Char(b, 1)
         THEN str_less(SubSeq(a, 2, Len(a)), SubSeq(b, 2, Len(b)))
         ELSE CharCode(Char(a, 1)) < CharCode(Char(b, 1))

(***************************************************************************)
(* Ordered dicts.                                                          *)
(***************************************************************************)
dict_has(d, k) == \E i \in 1..Len(d) : d[i].k = k

dict_get(d, k) == d[CHOOSE i \in 1..Len(d) : d[i].k = k].v

dict_set(d, k, v) ==
    IF dict_has(d, k)
    THEN [i \in 1..Len(d) |-> IF d[i].k = k THEN [k |-> k, v |-> v] ELSE d[i]]
    ELSE Append(d, [k |-> k, v |-> v])

dict_pop(d, k) == SelectSeq(d, LAMBDA e : e.k # k)

dict_keys(d) == {d[i].k : i \in 1..Len(d)}

dict_values(d) == {d[i].v : i \in 1..Len(d)}

\* dict.update(source)
RECURSIVE dict_update(_, _)
dict_update(target, source) ==
    IF source = <<>> THEN target
    ELSE dict_update(dict_set(target, Head(source).k, Head(source).v),
                     Tail(source))

(***************************************************************************)
(* _set_attrs: apply the keyword arguments attrargs (an ordered dict from  *)
(* names to ID or None) to the attributes target.  The result carries the  *)
(* attributes as they are when the function returns or raises.             *)
(***************************************************************************)
attr_name(name) ==
    IF Char(name, Len(name)) = "_" THEN SubSeq(name, 1, Len(name) - 1)
    ELSE name

\* a slip: a value of None never removes the attribute
RECURSIVE set_attrs_nodel(_, _, _)
set_attrs_nodel(target, attrargs, permit_role) ==
    IF attrargs = <<>> THEN [attrs |-> target, err |-> ""]
    ELSE IF ~permit_role /\ attr_name(Head(attrargs).k) = "role"
    THEN [attrs |-> target, err |-> "ValueError"]
    ELSE IF IsNone(Head(attrargs).v)
    THEN set_attrs_nodel(target, Tail(attrargs), permit_role)
    ELSE IF ~IsID(Head(attrargs).v)
    THEN [attrs |-> target, err |-> "ValueError"]
    ELSE set_attrs_nodel(dict_set(target, attr_name(Head(attrargs).k),
                                  normalize(Head(attrargs).v)),
                         Tail(attrargs), permit_role)

RECURSIVE set_attrs(_, _, _)
set_attrs(target, attrargs, permit_role) ==
    IF attrargs = <<>> THEN [attrs |-> target, err |-> ""]
    ELSE LET name  == attr_name(Head(attrargs).k)
             value == Head(attrargs).v
         IN  IF ~permit_role /\ name = "role"
             THEN [attrs |-> target, err |-> "ValueError"]
             ELSE IF IsNone(value)
             THEN set_attrs(dict_pop(target, name), Tail(attrargs), permit_role)
             ELSE IF ~IsID(value)
             THEN [attrs |-> target, err |-> "ValueError"]
             ELSE set_attrs(dict_set(target, name, normalize(value)),
                            Tail(attrargs), permit_role)

(***************************************************************************)
(* The program state.                                                      *)
(***************************************************************************)
VARIABLES
    dots,    \* the Dot objects created so far, indexed by identity
    addr,    \* id() of each Nonce the application holds
    ndisc,   \* number of implicit discriminant Nonces held by edges
    calls,   \* number of API calls the application has yet to make
    last,    \* the most recent API call and its outcome
    out      \* what the program has put out: the result of the most recent
             \* str(dot) or, where the application renders, the world W

vars == <<dots, addr, ndisc, calls, last, out>>

(***************************************************************************)
(* Block._block_init and Dot.__init__.  A Dot holds its Blocks in blocks;  *)
(* blocks[1] is the Dot itself, parent 0 is None, theme 0 is None.  The    *)
(* _Edge objects of a Dot live in edgeobjs; edgemap and Block.edges refer  *)
(* to them by index.                                                       *)
(***************************************************************************)
block_init(graphid, parent) ==
    [graphid     |-> graphid,
     d_grapha    |-> <<>>,
     d_nodea     |-> <<>>,
     d_edgea     |-> <<>>,
     grapha      |-> <<>>,
     subgraphmap |-> <<>>,
     nodes       |-> <<>>,
     edges       |-> <<>>,
     subgraphs   |-> <<>>,
     parent      |-> parent]

Dot_init(directed, strict, multigraph, id) ==
    [directed   |-> directed,
     strict     |-> strict,
     multigraph |-> multigraph,
     graphroles |-> <<>>,
     noderoles  |-> <<>>,
     edgeroles  |-> <<>>,
     nodemap    |-> <<>>,
     edgemap    |-> <<>>,
     edgeobjs   |-> <<>>,
     theme      |-> 0,
     comment    |-> None,
     blocks     |-> <<block_init(IF IsNone(id) THEN None ELSE normalize(id),
                                 0)>>]

(***************************************************************************)
(* Block.node, node_define, node_update, node_is_defined.  Each operator   *)
(* takes the Dot D and the index b of the Block the call is made through   *)
(* and yields the Dot after the call and the exception raised, if any.     *)
(* nodemap is a defaultdict: nodemap[key] creates the entry.               *)
(***************************************************************************)
node_set_attrs(D, key, attrs) ==
    LET Set(r) ==
            [dot |-> [D EXCEPT !.nodemap = dict_set(@, key, r.attrs)],
             err |-> r.err]
    IN  Set(set_attrs(IF dict_has(D.nodemap, key)
                      THEN dict_get(D.nodemap, key) ELSE <<>>,
                      attrs, TRUE))

\* a slip: a node is listed by every Block that names it
Block_node_scoped(D, b, id, attrs) ==
    IF ~IsID(id) THEN [dot |-> D, err |-> "ValueError"]
    ELSE LET Node(key) ==
                 node_set_attrs(IF \A i \in 1..Len(D.blocks[b].nodes) :
                                      D.blocks[b].nodes[i] # key
                                THEN [D EXCEPT !.blocks[b].nodes =
                                         Append(@, key)]
                                ELSE D,
                                key, attrs)
         IN  Node(normalize(id))

\* a slip: the Block lists the node on every call
Block_node_relist(D, b, id, attrs) ==
    IF ~IsID(id) THEN [dot |-> D, err |-> "ValueError"]
    ELSE LET Node(key) ==
                 node_set_attrs([D EXCEPT !.blocks[b].nodes = Append(@, key)],
                                key, attrs)
         IN  Node(normalize(id))

Block_node(D, b, id, attrs) ==
    IF ~IsID(id) THEN [dot |-> D, err |-> "ValueError"]
    ELSE LET Node(key) ==
                 node_set_attrs(IF ~dict_has(D.nodemap, key)
                                THEN [D EXCEPT !.blocks[b].nodes =
                                         Append(@, key)]
                                ELSE D,
                                key, attrs)
         IN  Node(normalize(id))

Block_node_define(D, b, id, attrs) ==
    IF ~IsID(id) THEN [dot |-> D, err |-> "ValueError"]
    ELSE LET Node(key) ==
                 IF dict_has(D.nodemap, key)
                 THEN [dot |-> D, err |-> "RuntimeError"]
                 ELSE node_set_attrs([D EXCEPT !.blocks[b].nodes =
                                         Append(@, key)],
                                     key, attrs)
         IN  Node(normalize(id))

\* a slip: nodemap[key] is read before the test, and nodemap, a defaultdict,
\* then has the key
Block_node_update_touch(D, b, id, attrs) ==
    IF ~IsID(id) THEN [dot |-> D, err |-> "ValueError"]
    ELSE LET Node(key) ==
                 IF ~dict_has(D.nodemap, key)
                 THEN [dot |-> [D EXCEPT !.nodemap = dict_set(@, key, <<>>)],
                       err |-> "RuntimeError"]
                 ELSE node_set_attrs(D, key, attrs)
         IN  Node(normalize(id))

Block_node_update(D, b, id, attrs) ==
    IF ~IsID(id) THEN [dot |-> D, err |-> "ValueError"]
    ELSE LET Node(key) ==
                 IF ~dict_has(D.nodemap, key)
                 THEN [dot |-> D, err |-> "RuntimeError"]
                 ELSE node_set_attrs(D, key, attrs)
         IN  Node(normalize(id))

Block_node_is_defined(D, id) == dict_has(D.nodemap, normalize(id))

(***************************************************************************)
(* _NormPort.__init__                                                      *)
(***************************************************************************)
COMPASS_PT == {"n", "ne", "e", "se", "s", "sw", "w", "nw", "c"}

NormPort_init(point) ==
    IF point.t = "port"
    THEN IF \/ ~IsID(point.node)
            \/ ~IsNone(point.name) /\ ~IsID(point.name)
            \/ /\ ~IsNone(point.cp)
               /\ point.cp # StrV("_")
               /\ ~(point.cp.t = "str" /\ point.cp.s \in COMPASS_PT)
         THEN [err |-> "ValueError"]
         ELSE [err      |-> "",
               node     |-> normalize(point.node),
               name     |-> IF IsNone(point.name) THEN None
                            ELSE normalize(point.name),
               cp       |-> IF point.cp = StrV("_") THEN None ELSE point.cp,
               implicit |-> FALSE]
    ELSE IF ~IsID(point) THEN [err |-> "ValueError"]
         ELSE [err      |-> "",
               node     |-> normalize(point),
               name     |-> None,
               cp       |-> None,
               implicit |-> TRUE]

\* _id_key(a) <= _id_key(b)
id_key_le(a, b) ==
    IF IsText(a) /\ IsText(b) THEN a.s = b.s \/ str_less(a.s, b.s)
    ELSE IF IsText(a) THEN TRUE
    ELSE IF IsText(b) THEN FALSE
    ELSE addr[a.id] <= addr[b.id]

(***************************************************************************)
(* Block._edge_preamble.  fresh is the identity of the Nonce("__D") the     *)
(* call creates when it needs an implicit discriminant.                    *)
(***************************************************************************)
\* a slip: the pair of a non-directed edge is not put in _id_key order
edge_key_unsorted(directed, node1, node2, normdisc) ==
    <<node1, node2, normdisc>>

\* a slip: the discriminant is left out of the key
edge_key_nodisc(directed, node1, node2, normdisc) ==
    IF directed \/ id_key_le(node1, node2)
    THEN <<node1, node2, None>>
    ELSE <<node2, node1, None>>

edge_key(directed, node1, node2, normdisc) ==
    IF directed \/ id_key_le(node1, node2)
    THEN <<node1, node2, normdisc>>
    ELSE <<node2, node1, normdisc>>

edge_preamble(D, point1, point2, discriminant, fresh) ==
    LET Keyed(normport1, normport2, normdisc) ==
            [err       |-> "",
             key       |-> edge_key(D.directed, normport1.node,
                                    normport2.node, normdisc),
             normport1 |-> normport1,
             normport2 |-> normport2,
             normdisc  |-> normdisc]
        Preamble(normport1, normport2) ==
            IF normport1.err # "" \/ normport2.err # ""
            THEN [err |-> "ValueError"]
            ELSE IF ~IsNone(discriminant) /\ ~D.multigraph
            THEN [err |-> "ValueError"]
            ELSE IF ~IsNone(discriminant) /\ ~IsID(discriminant)
            THEN [err |-> "ValueError"]
            ELSE Keyed(normport1, normport2,
                       IF ~IsNone(discriminant) THEN normalize(discriminant)
                       ELSE IF D.multigraph THEN Nonce(fresh, "__D")
                       ELSE None)
    IN  Preamble(NormPort_init(point1), NormPort_init(point2))

(***************************************************************************)
(* _Edge.__init__ and _Edge.update_ports                                   *)
(***************************************************************************)
Edge_init(directed, normport1, normport2, normdisc) ==
    [normport1 |-> normport1,
     normport2 |-> normport2,
     normdisc  |-> normdisc,
     directed  |-> directed,
     attrs     |-> <<>>]

\* a slip: the stored ports are never swapped
update_ports_noswap(edge, otherport1, otherport2) ==
    [edge |-> [edge EXCEPT
                 !.normport1 = IF ~otherport1.implicit /\
                                  otherport1.node = edge.normport1.node
                               THEN otherport1 ELSE @,
                 !.normport2 = IF ~otherport2.implicit /\
                                  otherport2.node = edge.normport2.node
                               THEN otherport2 ELSE @],
     err  |-> ""]

\* a slip: an amended edge takes both endpoints as they are given
update_ports_replace(edge, otherport1, otherport2) ==
    [edge |-> [edge EXCEPT !.normport1 = otherport1, !.normport2 = otherport2],
     err  |-> ""]

update_ports(edge, otherport1, otherport2) ==
    LET Update(swap, np1, np2) ==
            IF \/ swap /\ edge.directed
               \/ otherport1.node # np1.node
               \/ otherport2.node # np2.node
            THEN [edge |-> edge, err |-> "AssertionError"]
            ELSE [edge |-> [edge EXCEPT
                              !.normport1 = IF ~otherport1.implicit
                                            THEN otherport1 ELSE np1,
                              !.normport2 = IF ~otherport2.implicit
                                            THEN otherport2 ELSE np2],
                  err  |-> ""]
        Swapped(swap) ==
            Update(swap,
                   IF swap THEN edge.normport2 ELSE edge.normport1,
                   IF swap THEN edge.normport1 ELSE edge.normport2)
    IN  Swapped(otherport1.node # edge.normport1.node)

(***************************************************************************)
(* Block._edge, edge, edge_define, edge_update, edge_is_defined.  kept     *)
(* tells whether the new Nonce("__D") is held by an edge after the call.   *)
(***************************************************************************)
Block_edge_impl(D, b, point1, point2, discriminant, attrargs, must_exist, must_not_exist, fresh) ==
    LET Create(pre, e, r) ==
            [dot  |-> [D EXCEPT
                         !.edgeobjs = Append(@,
                             [Edge_init(D.directed, pre.normport1,
                                        pre.normport2, pre.normdisc)
                                 EXCEPT !.attrs = r.attrs]),
                         !.edgemap = dict_set(@, pre.key, e),
                         !.blocks[b].edges = Append(@, e)],
             err  |-> r.err,
             kept |-> IsNonce(pre.normdisc) /\ pre.normdisc.id = fresh]
        Amended(e, u, r) ==
            [dot  |-> [D EXCEPT !.edgeobjs[e] =
                          [u.edge EXCEPT !.attrs = r.attrs]],
             err  |-> r.err,
             kept |-> FALSE]
        Ported(e, u) ==
            IF u.err # "" THEN [dot |-> D, err |-> u.err, kept |-> FALSE]
            ELSE Amended(e, u, set_attrs(u.edge.attrs, attrargs, TRUE))
        Amend(pre, e) ==
            Ported(e, update_ports(D.edgeobjs[e], pre.normport1,
                                   pre.normport2))
        Edge(pre) ==
            IF pre.err # "" THEN [dot |-> D, err |-> pre.err, kept |-> FALSE]
            ELSE IF ~dict_has(D.edgemap, pre.key)
            THEN IF must_exist
                 THEN [dot |-> D, err |-> "RuntimeError", kept |-> FALSE]
                 ELSE Create(pre, Len(D.edgeobjs) + 1,
                             set_attrs(<<>>, attrargs, TRUE))
            ELSE IF must_not_exist
                 THEN [dot |-> D, err |-> "RuntimeError", kept |-> FALSE]
                 ELSE Amend(pre, dict_get(D.edgemap, pre.key))
    IN  Edge(edge_preamble(D, point1, point2, discriminant, fresh))

Block_edge(D, b, point1, point2, discriminant, attrargs, fresh) ==
    Block_edge_impl(D, b, point1, point2, discriminant, attrargs,
                    FALSE, FALSE, fresh)

Block_edge_define(D, b, point1, point2, discriminant, attrargs, fresh) ==
    Block_edge_impl(D, b, point1, point2, discriminant, attrargs,
                    FALSE, TRUE, fresh)

Block_edge_update(D, b, point1, point2, discriminant, attrargs, fresh) ==
    Block_edge_impl(D, b, point1, point2, discriminant, attrargs,
                    TRUE, FALSE, fresh)

Block_edge_is_defined(D, point1, point2, discriminant, fresh) ==
    LET Defined(pre) ==
            IF pre.err # "" THEN [err |-> pre.err, ret |-> FALSE]
            ELSE [err |-> "", ret |-> dict_has(D.edgemap, pre.key)]
    IN  Defined(edge_preamble(D, point1, point2, discriminant, fresh))

(***************************************************************************)
(* Block.subgraph, subgraph_define, subgraph_update, subgraph_is_defined.  *)
(* ret is the Block returned.                                              *)
(***************************************************************************)
\* a slip: the id is looked up among the subgraphs of the whole Dot, as
\* node ids are
Block_subgraph_global(D, b, id) ==
    IF ~IsNone(id) /\ ~IsID(id) THEN [dot |-> D, err |-> "ValueError", ret |-> 0]
    ELSE LET Subgraph(graphid, sub) ==
                 IF /\ ~IsNone(id)
                    /\ \E c \in 2..Len(D.blocks) : D.blocks[c].graphid = graphid
                 THEN [dot |-> D, err |-> "",
                       ret |-> CHOOSE c \in 2..Len(D.blocks) :
                                  D.blocks[c].graphid = graphid]
                 ELSE [dot |-> [D EXCEPT
                                  !.blocks = [Append(@, block_init(graphid, b))
                                      EXCEPT ![b].subgraphs = Append(@, sub),
                                             ![b].subgraphmap =
                                                 IF IsNone(graphid) THEN @
                                                 ELSE dict_set(@, graphid,
                                                               sub)]],
                       err |-> "",
                       ret |-> sub]
         IN  Subgraph(IF IsNone(id) THEN None ELSE normalize(id),
                      Len(D.blocks) + 1)

Block_subgraph(D, b, id) ==
    IF ~IsNone(id) /\ ~IsID(id) THEN [dot |-> D, err |-> "ValueError", ret |-> 0]
    ELSE LET Subgraph(graphid, sub) ==
                 IF ~IsNone(id) /\ dict_has(D.blocks[b].subgraphmap, graphid)
                 THEN [dot |-> D, err |-> "",
                       ret |-> dict_get(D.blocks[b].subgraphmap, graphid)]
                 ELSE [dot |-> [D EXCEPT
                                  !.blocks = [Append(@, block_init(graphid, b))
                                      EXCEPT ![b].subgraphs = Append(@, sub),
                                             ![b].subgraphmap =
                                                 IF IsNone(graphid) THEN @
                                                 ELSE dict_set(@, graphid,
                                                               sub)]],
                       err |-> "",
                       ret |-> sub]
         IN  Subgraph(IF IsNone(id) THEN None ELSE normalize(id),
                      Len(D.blocks) + 1)

Block_subgraph_define(D, b, id) ==
    IF ~IsID(id) THEN [dot |-> D, err |-> "ValueError", ret |-> 0]
    ELSE IF dict_has(D.blocks[b].subgraphmap, normalize(id))
    THEN [dot |-> D, err |-> "RuntimeError", ret |-> 0]
    ELSE Block_subgraph(D, b, id)

Block_subgraph_update(D, b, id) ==
    IF ~IsID(id) THEN [dot |-> D, err |-> "ValueError", ret |-> 0]
    ELSE IF ~dict_has(D.blocks[b].subgraphmap, normalize(id))
    THEN [dot |-> D, err |-> "RuntimeError", ret |-> 0]
    ELSE Block_subgraph(D, b, id)

Block_subgraph_is_defined(D, b, id) ==
    dict_has(D.blocks[b].subgraphmap, normalize(id))

(***************************************************************************)
(* Block.graph_default, graph, node_default, edge_default, all_default     *)
(***************************************************************************)
Block_graph_default(D, b, attrs) ==
    LET Set(r) ==
            [dot |-> [D EXCEPT !.blocks[b].d_grapha = r.attrs], err |-> r.err]
    IN  Set(set_attrs(D.blocks[b].d_grapha, attrs, FALSE))

Block_graph(D, b, attrs) ==
    LET Set(r) ==
            [dot |-> [D EXCEPT !.blocks[b].grapha = r.attrs], err |-> r.err]
    IN  Set(set_attrs(D.blocks[b].grapha, attrs, TRUE))

Block_node_default(D, b, attrs) ==
    LET Set(r) ==
            [dot |-> [D EXCEPT !.blocks[b].d_nodea = r.attrs], err |-> r.err]
    IN  Set(set_attrs(D.blocks[b].d_nodea, attrs, FALSE))

\* a slip: edge defaults take the attribute role
Block_edge_default_permissive(D, b, attrs) ==
    LET Set(r) ==
            [dot |-> [D EXCEPT !.blocks[b].d_edgea = r.attrs], err |-> r.err]
    IN  Set(set_attrs(D.blocks[b].d_edgea, attrs, TRUE))

Block_edge_default(D, b, attrs) ==
    LET Set(r) ==
            [dot |-> [D EXCEPT !.blocks[b].d_edgea = r.attrs], err |-> r.err]
    IN  Set(set_attrs(D.blocks[b].d_edgea, attrs, FALSE))

Block_all_default(D, b, attrs) ==
    LET Third(r) ==
            IF r.err # "" THEN r ELSE Block_edge_default(r.dot, b, attrs)
        Second(r) ==
            Third(IF r.err # "" THEN r
                  ELSE Block_node_default(r.dot, b, attrs))
    IN  Second(Block_graph_default(D, b, attrs))

(***************************************************************************)
(* Dot.graph_role, node_role, edge_role, all_role.  The role tables are    *)
(* defaultdicts: roles[normrole] creates the role before _set_attrs runs.  *)
(***************************************************************************)
role_set_attrs(roles, normrole, attrs) ==
    LET Set(r) == [roles |-> dict_set(roles, normrole, r.attrs), err |-> r.err]
    IN  Set(set_attrs(IF dict_has(roles, normrole)
                      THEN dict_get(roles, normrole) ELSE <<>>,
                      attrs, FALSE))

Dot_graph_role(D, role, attrs) ==
    IF ~IsID(role) THEN [dot |-> D, err |-> "ValueError"]
    ELSE LET Set(r) == [dot |-> [D EXCEPT !.graphroles = r.roles], err |-> r.err]
         IN  Set(role_set_attrs(D.graphroles, normalize(role), attrs))

Dot_node_role(D, role, attrs) ==
    IF ~IsID(role) THEN [dot |-> D, err |-> "ValueError"]
    ELSE LET Set(r) == [dot |-> [D EXCEPT !.noderoles = r.roles], err |-> r.err]
         IN  Set(role_set_attrs(D.noderoles, normalize(role), attrs))

Dot_edge_role(D, role, attrs) ==
    IF ~IsID(role) THEN [dot |-> D, err |-> "ValueError"]
    ELSE LET Set(r) == [dot |-> [D EXCEPT !.edgeroles = r.roles], err |-> r.err]
         IN  Set(role_set_attrs(D.edgeroles, normalize(role), attrs))

Dot_all_role(D, role, attrs) ==
    LET Third(r) ==
            IF r.err # "" THEN r ELSE Dot_edge_role(r.dot, role, attrs)
        Second(r) ==
            Third(IF r.err # "" THEN r ELSE Dot_node_role(r.dot, role, attrs))
    IN  Second(Dot_graph_role(D, role, attrs))

(***************************************************************************)
(* Dot.use_theme.  A theme argument is None, [t |-> "dot", d |-> i] or a   *)
(* Block that is not a Dot, [t |-> "block"].  The while loop walks the     *)
(* theme links of the Dot heap ds; in a heap with a cycle that does not    *)
(* pass through self it never ends ("NonTermination").                     *)
(***************************************************************************)
DotRef(d) == [t |-> "dot", d |-> d]

BlockRef == [t |-> "block"]

\* a slip: only the theme itself is compared with self, not its chain
theme_walk_direct(ds, current, self, fuel) ==
    IF current = self THEN "ValueError" ELSE ""

RECURSIVE theme_walk(_, _, _, _)
theme_walk(ds, current, self, fuel) ==
    IF current = 0 THEN ""
    ELSE IF current = self THEN "ValueError"
    ELSE IF fuel = 0 THEN "NonTermination"
    ELSE theme_walk(ds, ds[current].theme, self, fuel - 1)

Dot_use_theme(ds, self, theme) ==
    IF IsNone(theme) THEN [dots |-> [ds EXCEPT ![self].theme = 0], err |-> ""]
    ELSE IF theme.t # "dot" THEN [dots |-> ds, err |-> "RuntimeError"]
    ELSE LET w == theme_walk(ds, theme.d, self, Len(ds)) IN
         IF w # "" THEN [dots |-> ds, err |-> w]
         ELSE [dots |-> [ds EXCEPT ![self].theme = theme.d], err |-> ""]

\* a slip: the copy is made without the theme link
Dot_deepcopy_themeless(D) == [D EXCEPT !.theme = 0]

(***************************************************************************)
(* Dot.copy and Dot.__deepcopy__: every field is deep-copied, the theme    *)
(* link is shared.  Nonces and _NormPorts copy to themselves.              *)
(***************************************************************************)
Dot_deepcopy(D) == D

Dot_copy(ds, self, id, comment) ==
    IF ~IsNone(id) /\ ~IsID(id) THEN [dots |-> ds, err |-> "ValueError"]
    ELSE LET c1 == Dot_deepcopy(ds[self])
             c2 == IF IsNone(id) THEN c1
                   ELSE [c1 EXCEPT !.blocks[1].graphid = normalize(id)]
             c3 == IF IsNone(comment) THEN c2
                   ELSE [c2 EXCEPT !.comment = comment]
         IN  [dots |-> Append(ds, c3), err |-> ""]

(***************************************************************************)
(* _update_roles and _Mien.__init__                                        *)
(***************************************************************************)
RECURSIVE update_roles(_, _)
update_roles(target, source) ==
    IF source = <<>> THEN target
    ELSE LET role         == Head(source).k
             source_attrs == Head(source).v
         IN  update_roles(
                 IF dict_has(target, role)
                 THEN dict_set(target, role,
                               dict_update(dict_get(target, role),
                                           source_attrs))
                 ELSE dict_set(target, role, source_attrs),
                 Tail(source))

\* stack = [dot, dot.theme, dot.theme.theme, ...]; hang tells that the
\* while loop does not end
RECURSIVE theme_stack(_, _, _)
theme_stack(ds, theme, fuel) ==
    IF theme = 0 THEN [stack |-> <<>>, hang |-> FALSE]
    ELSE IF fuel = 0 THEN [stack |-> <<>>, hang |-> TRUE]
    ELSE LET rest == theme_stack(ds, ds[theme].theme, fuel - 1) IN
         [stack |-> <<theme>> \o rest.stack, hang |-> rest.hang]

EmptyMien ==
    [d_grapha   |-> <<>>, d_nodea   |-> <<>>, d_edgea   |-> <<>>,
     grapha     |-> <<>>,
     graphroles |-> <<>>, noderoles |-> <<>>, edgeroles |-> <<>>]

\* a slip: the stack is merged first element first, so that the farthest
\* theme has the last word
RECURSIVE mien_merge_forward(_, _, _)
mien_merge_forward(ds, stack, m) ==
    IF stack = <<>> THEN m
    ELSE mien_merge_forward(ds, Tail(stack),
             [d_grapha   |-> dict_update(m.d_grapha,
                                         ds[Head(stack)].blocks[1].d_grapha),
              d_nodea    |-> dict_update(m.d_nodea,
                                         ds[Head(stack)].blocks[1].d_nodea),
              d_edgea    |-> dict_update(m.d_edgea,
                                         ds[Head(stack)].blocks[1].d_edgea),
              grapha     |-> dict_update(m.grapha,
                                         ds[Head(stack)].blocks[1].grapha),
              graphroles |-> update_roles(m.graphroles,
                                          ds[Head(stack)].graphroles),
              noderoles  |-> update_roles(m.noderoles,
                                          ds[Head(stack)].noderoles),
              edgeroles  |-> update_roles(m.edgeroles,
                                          ds[Head(stack)].edgeroles)])

\* the body of "for theme in reversed(stack)", last element first
RECURSIVE mien_merge(_, _, _)
mien_merge(ds, stack, m) ==
    IF stack = <<>> THEN m
    ELSE LET theme == ds[stack[Len(stack)]] IN
         mien_merge(ds, SubSeq(stack, 1, Len(stack) - 1),
             [d_grapha   |-> dict_update(m.d_grapha, theme.blocks[1].d_grapha),
              d_nodea    |-> dict_update(m.d_nodea, theme.blocks[1].d_nodea),
              d_edgea    |-> dict_update(m.d_edgea, theme.blocks[1].d_edgea),
              grapha     |-> dict_update(m.grapha, theme.blocks[1].grapha),
              graphroles |-> update_roles(m.graphroles, theme.graphroles),
              noderoles  |-> update_roles(m.noderoles, theme.noderoles),
              edgeroles  |-> update_roles(m.edgeroles, theme.edgeroles)])

\* a slip: the _Mien made by the first serialization of a Dot is kept and
\* used by its later ones
Mien_init_cached(ds, dot) ==
    IF out[dot].op = "str" THEN [hang |-> FALSE, mien |-> out[dot].mien]
    ELSE IF ds[dot].theme = 0
    THEN [hang |-> FALSE,
          mien |-> [d_grapha   |-> ds[dot].blocks[1].d_grapha,
                    d_nodea    |-> ds[dot].blocks[1].d_nodea,
                    d_edgea    |-> ds[dot].blocks[1].d_edgea,
                    grapha     |-> ds[dot].blocks[1].grapha,
                    graphroles |-> ds[dot].graphroles,
                    noderoles  |-> ds[dot].noderoles,
                    edgeroles  |-> ds[dot].edgeroles]]
    ELSE [hang |-> theme_stack(ds, ds[dot].theme, Len(ds)).hang,
          mien |-> mien_merge(ds,
                       <<dot>> \o theme_stack(ds, ds[dot].theme,
                                              Len(ds)).stack,
                       EmptyMien)]

Mien_init(ds, dot) ==
    IF ds[dot].theme = 0
    THEN [hang |-> FALSE,
          mien |-> [d_grapha   |-> ds[dot].blocks[1].d_grapha,
                    d_nodea    |-> ds[dot].blocks[1].d_nodea,
                    d_edgea    |-> ds[dot].blocks[1].d_edgea,
                    grapha     |-> ds[dot].blocks[1].grapha,
                    graphroles |-> ds[dot].graphroles,
                    noderoles  |-> ds[dot].noderoles,
                    edgeroles  |-> ds[dot].edgeroles]]
    ELSE LET st == theme_stack(ds, ds[dot].theme, Len(ds)) IN
         [hang |-> st.hang,
          mien |-> mien_merge(ds, <<dot>> \o st.stack, EmptyMien)]

(***************************************************************************)
(* _integrate_role                                                         *)
(***************************************************************************)
RECURSIVE role_fill(_, _)
role_fill(attrs, role_attrs) ==
    IF role_attrs = <<>> THEN attrs
    ELSE role_fill(IF ~dict_has(attrs, Head(role_attrs).k)
                   THEN dict_set(attrs, Head(role_attrs).k, Head(role_attrs).v)
                   ELSE attrs,
                   Tail(role_attrs))

\* a slip: the attributes of the role replace the explicit ones
integrate_role_rolewins(attrs, roles) ==
    IF dict_has(attrs, "role")
    THEN IF dict_has(roles, dict_get(attrs, "role"))
         THEN [attrs |-> dict_pop(dict_update(attrs,
                                   dict_get(roles, dict_get(attrs, "role"))),
                                  "role"),
               err   |-> ""]
         ELSE [attrs |-> attrs, err |-> "RuntimeError"]
    ELSE [attrs |-> attrs, err |-> ""]

\* a slip: a role without attributes counts as not defined
integrate_role_truthy(attrs, roles) ==
    IF dict_has(attrs, "role")
    THEN IF /\ dict_has(roles, dict_get(attrs, "role"))
            /\ dict_get(roles, dict_get(attrs, "role")) # <<>>
         THEN [attrs |-> dict_pop(role_fill(attrs,
                                   dict_get(roles, dict_get(attrs, "role"))),
                                  "role"),
               err   |-> ""]
         ELSE [attrs |-> attrs, err |-> "RuntimeError"]
    ELSE [attrs |-> attrs, err |-> ""]

integrate_role(attrs, roles) ==
    IF dict_has(attrs, "role")
    THEN IF dict_has(roles, dict_get(attrs, "role"))
         THEN [attrs |-> dict_pop(role_fill(attrs,
                                   dict_get(roles, dict_get(attrs, "role"))),
                                  "role"),
               err   |-> ""]
         ELSE [attrs |-> attrs, err |-> "RuntimeError"]
    ELSE [attrs |-> attrs, err |-> ""]

(***************************************************************************)
(* _collect_ids: the values collected, as a set                            *)
(***************************************************************************)
roles_values(roles) ==
    UNION {dict_values(roles[i].v) : i \in 1..Len(roles)}

RECURSIVE add_block(_, _)
add_block(D, b) ==
    {D.blocks[b].graphid}
        \cup dict_values(D.blocks[b].d_grapha)
        \cup dict_values(D.blocks[b].d_nodea)
        \cup dict_values(D.blocks[b].d_edgea)
        \cup dict_values(D.blocks[b].grapha)
        \cup UNION {add_block(D, D.blocks[b].subgraphs[i]) :
                       i \in 1..Len(D.blocks[b].subgraphs)}

collect_ids(D, mien) ==
    {D.blocks[1].graphid}
        \cup dict_values(mien.d_grapha)
        \cup dict_values(mien.d_nodea)
        \cup dict_values(mien.d_edgea)
        \cup dict_values(mien.grapha)
        \cup roles_values(mien.graphroles)
        \cup roles_values(mien.noderoles)
        \cup roles_values(mien.edgeroles)
        \cup dict_keys(D.nodemap)
        \cup UNION {dict_values(D.nodemap[i].v) : i \in 1..Len(D.nodemap)}
        \cup UNION {{D.edgeobjs[D.edgemap[i].v].normport1.node,
                     D.edgeobjs[D.edgemap[i].v].normport1.name,
                     D.edgeobjs[D.edgemap[i].v].normport2.node,
                     D.edgeobjs[D.edgemap[i].v].normport2.name}
                    \cup dict_values(D.edgeobjs[D.edgemap[i].v].attrs) :
                       i \in 1..Len(D.edgemap)}
        \cup UNION {add_block(D, D.blocks[1].subgraphs[i]) :
                       i \in 1..Len(D.blocks[1].subgraphs)}

(***************************************************************************)
(* _NonceResolver: the resolver state R is [avoid, nonce_id, prefix_seqno] *)
(***************************************************************************)
\* a slip: the sequence numbers of the prefixes are kept from the last
\* serialization of the Dot, as a dict in the class would be
NonceResolver_init_kept(D, mien) ==
    [avoid        |-> {v.s : v \in {w \in collect_ids(D, mien) : IsText(w)}},
     nonce_id     |-> <<>>,
     prefix_seqno |->
         IF \E d \in 1..Len(dots) :
               dots[d] = D /\ out[d].op = "str" /\ out[d].err = ""
         THEN out[CHOOSE d \in 1..Len(dots) :
                     dots[d] = D /\ out[d].op = "str" /\ out[d].err = ""
                 ].R.prefix_seqno
         ELSE <<>>]

NonceResolver_init(D, mien) ==
    [avoid        |-> {v.s : v \in {w \in collect_ids(D, mien) : IsText(w)}},
     nonce_id     |-> <<>>,
     prefix_seqno |-> <<>>]

RECURSIVE resolve_search(_, _, _)
resolve_search(R, normid, seqno) ==
    LET Try(candidate) ==
            IF candidate \notin R.avoid
            THEN [R    |-> [avoid        |-> R.avoid \cup {candidate},
                            nonce_id     |-> dict_set(R.nonce_id, normid,
                                                      candidate),
                            prefix_seqno |-> dict_set(R.prefix_seqno,
                                                      normid.prefix, seqno)],
                  text |-> candidate]
            ELSE resolve_search(R, normid, seqno + 1)
    IN  Try(normalize(StrV(normid.prefix \o "_" \o ToString(seqno))).s)

\* a slip: a Nonce is looked up by its prefix, as if Nonces of equal prefix
\* were equal
NonceResolver_resolve_byprefix(R, normid) ==
    IF IsText(normid) THEN [R |-> R, text |-> normid.s]
    ELSE IF \E i \in 1..Len(R.nonce_id) : R.nonce_id[i].k.prefix = normid.prefix
    THEN [R    |-> R,
          text |-> R.nonce_id[CHOOSE i \in 1..Len(R.nonce_id) :
                                 R.nonce_id[i].k.prefix = normid.prefix].v]
    ELSE resolve_search(R, normid, 1)

\* a slip: the sequence numbers of a prefix start at 2
NonceResolver_resolve_skipfirst(R, normid) ==
    IF IsText(normid) THEN [R |-> R, text |-> normid.s]
    ELSE IF dict_has(R.nonce_id, normid)
    THEN [R |-> R, text |-> dict_get(R.nonce_id, normid)]
    ELSE resolve_search(R, normid,
             (IF dict_has(R.prefix_seqno, normid.prefix)
              THEN dict_get(R.prefix_seqno, normid.prefix) ELSE 1) + 1)

NonceResolver_resolve(R, normid) ==
    IF IsText(normid) THEN [R |-> R, text |-> normid.s]
    ELSE IF dict_has(R.nonce_id, normid)
    THEN [R |-> R, text |-> dict_get(R.nonce_id, normid)]
    ELSE resolve_search(R, normid,
             (IF dict_has(R.prefix_seqno, normid.prefix)
              THEN dict_get(R.prefix_seqno, normid.prefix) ELSE 0) + 1)

(***************************************************************************)
(* DOT text generation.  A line of output is [s |-> text] together with    *)
(* what it states: kind, the Block b it belongs to, the node key or the    *)
(* edge object e it is about.  The emitter state Em carries the lines, the *)
(* resolver state R and the exception raised so far.                       *)
(***************************************************************************)
TEXT_ATTRS == {"label", "headlabel", "taillabel", "xlabel", "comment"}

prefer_quoted(id) ==
    IF Len(id) > 0 /\ Char(id, 1) # "\"" /\ Char(id, 1) # "<"
    THEN "\"" \o id \o "\""
    ELSE id

RECURSIVE str_join(_, _)
str_join(sep, pieces) ==
    IF pieces = <<>> THEN ""
    ELSE IF Len(pieces) = 1 THEN pieces[1]
    ELSE pieces[1] \o sep \o str_join(sep, Tail(pieces))

RECURSIVE str_repeat(_, _)
str_repeat(s, n) == IF n <= 0 THEN "" ELSE s \o str_repeat(s, n - 1)

\* str.splitlines for the line ends \n, \r\n and \r
RECURSIVE str_splitlines(_, _)
str_splitlines(s, cur) ==
    IF Len(s) = 0 THEN (IF cur = "" THEN <<>> ELSE <<cur>>)
    ELSE IF Len(s) >= 2 /\ SubSeq(s, 1, 2) = "\r\n"
    THEN <<cur>> \o str_splitlines(SubSeq(s, 3, Len(s)), "")
    ELSE IF Char(s, 1) \in {"\n", "\r"}
    THEN <<cur>> \o str_splitlines(SubSeq(s, 2, Len(s)), "")
    ELSE str_splitlines(SubSeq(s, 2, Len(s)), cur \o Char(s, 1))

Line(s, kind, b, key, e) == [s |-> s, kind |-> kind, b |-> b, key |-> key, e |-> e]

\* resolve(value), quoted when key is a text attribute: the resolver after,
\* and the text
attr_value(R, key, value) ==
    LET Quoted(r) ==
            [R    |-> r.R,
             text |-> IF key \in TEXT_ATTRS THEN prefer_quoted(r.text)
                      ELSE r.text]
    IN  Quoted(NonceResolver_resolve(R, value))

\* the pieces "key=value" of an attribute list
RECURSIVE attr_pieces(_, _)
attr_pieces(R, attrs) ==
    IF attrs = <<>> THEN [R |-> R, pieces |-> <<>>]
    ELSE LET Cons(piece, rest) ==
                 [R |-> rest.R, pieces |-> <<piece>> \o rest.pieces]
             Piece(r) ==
                 Cons(Head(attrs).k \o "=" \o r.text,
                      attr_pieces(r.R, Tail(attrs)))
         IN  Piece(attr_value(R, Head(attrs).k, Head(attrs).v))

\* statement(s, attrs) of _statements
statement(Em, prefix, s, attrs, kind, b, key, e) ==
    IF attrs # <<>>
    THEN LET Listed(r) ==
                 [Em EXCEPT !.R = r.R,
                            !.lines = Append(@, Line(prefix \o s \o " ["
                                          \o str_join(" ", r.pieces) \o "]",
                                          kind, b, key, e))]
         IN  Listed(attr_pieces(Em.R, attrs))
    ELSE [Em EXCEPT !.lines = Append(@, Line(prefix \o s, kind, b, key, e))]

\* blankline() of _statements; Em.n is blanklines
blankline(Em) ==
    IF Em.lines[Len(Em.lines)].s # ""
    THEN [Em EXCEPT !.lines = Append(@, Line("", "blank", 0, None, 0)),
                    !.n = @ + 1]
    ELSE Em

\* _NormPort.dot
NormPort_dot(R, port) ==
    LET Joined(r1, r2) ==
            [R    |-> r2.R,
             text |-> r1.text
                      \o (IF IsNone(port.name) THEN ""
                          ELSE ":" \o (IF r2.text \in COMPASS_PT
                                       THEN prefer_quoted(r2.text)
                                       ELSE r2.text))
                      \o (IF IsNone(port.cp) THEN "" ELSE ":" \o port.cp.s)]
        Named(r1) ==
            Joined(r1, IF IsNone(port.name) THEN [R |-> r1.R, text |-> ""]
                       ELSE NonceResolver_resolve(r1.R, port.name))
    IN  Named(NonceResolver_resolve(R, port.node))

\* _Edge.dot
Edge_dot(R, edge) ==
    LET Joined(r1, r2) ==
            [R    |-> r2.R,
             text |-> r1.text \o (IF edge.directed THEN " -> " ELSE " -- ")
                              \o r2.text]
        Second(r1) == Joined(r1, NormPort_dot(r1.R, edge.normport2))
    IN  Second(NormPort_dot(R, edge.normport1))

\* for key, value in grapha.items(): if key != "label": ...
RECURSIVE graph_attr_statements(_, _, _, _)
graph_attr_statements(Em, prefix, grapha, b) ==
    IF grapha = <<>> THEN Em
    ELSE IF Head(grapha).k = "label"
    THEN graph_attr_statements(Em, prefix, Tail(grapha), b)
    ELSE LET Stated(r) ==
                 graph_attr_statements(
                     statement([Em EXCEPT !.R = r.R], prefix,
                               Head(grapha).k \o "=" \o r.text, <<>>,
                               "graph_attr", b, None, 0),
                     prefix, Tail(grapha), b)
         IN  Stated(attr_value(Em.R, Head(grapha).k, Head(grapha).v))

\* for nodekey in self.nodes: ...
\* a slip: the nodes of a Block are written last defined first
RECURSIVE node_statements_backward(_, _, _, _, _, _)
node_statements_backward(D, b, Em, prefix, mien, i) ==
    IF Em.err # "" \/ i > Len(D.blocks[b].nodes) THEN Em
    ELSE LET Stated(nodekey, ir, r) ==
                 IF ir.err # "" THEN [Em EXCEPT !.err = ir.err]
                 ELSE node_statements_backward(D, b,
                          statement([Em EXCEPT !.R = r.R], prefix, r.text,
                                    ir.attrs, "node", b, nodekey, 0),
                          prefix, mien, i + 1)
             Node(nodekey) ==
                 Stated(nodekey,
                        integrate_role(dict_get(D.nodemap, nodekey),
                                       mien.noderoles),
                        NonceResolver_resolve(Em.R, nodekey))
         IN  Node(D.blocks[b].nodes[Len(D.blocks[b].nodes) + 1 - i])

RECURSIVE node_statements(_, _, _, _, _, _)
node_statements(D, b, Em, prefix, mien, i) ==
    IF Em.err # "" \/ i > Len(D.blocks[b].nodes) THEN Em
    ELSE LET Stated(nodekey, ir, r) ==
                 IF ir.err # "" THEN [Em EXCEPT !.err = ir.err]
                 ELSE node_statements(D, b,
                          statement([Em EXCEPT !.R = r.R], prefix, r.text,
                                    ir.attrs, "node", b, nodekey, 0),
                          prefix, mien, i + 1)
             Node(nodekey) ==
                 Stated(nodekey,
                        integrate_role(dict_get(D.nodemap, nodekey),
                                       mien.noderoles),
                        NonceResolver_resolve(Em.R, nodekey))
         IN  Node(D.blocks[b].nodes[i])

\* for edge in self.edges: ...
RECURSIVE edge_statements(_, _, _, _, _, _)
edge_statements(D, b, Em, prefix, mien, i) ==
    IF Em.err # "" \/ i > Len(D.blocks[b].edges) THEN Em
    ELSE LET Stated(e, ir, r) ==
                 IF ir.err # "" THEN [Em EXCEPT !.err = ir.err]
                 ELSE edge_statements(D, b,
                          statement([Em EXCEPT !.R = r.R], prefix, r.text,
                                    ir.attrs, "edge", b, None, e),
                          prefix, mien, i + 1)
             Edge(e) ==
                 Stated(e,
                        integrate_role(D.edgeobjs[e].attrs, mien.edgeroles),
                        Edge_dot(Em.R, D.edgeobjs[e]))
         IN  Edge(D.blocks[b].edges[i])

(***************************************************************************)
(* Block._statements and Dot.__str__                                       *)
(***************************************************************************)
RECURSIVE Block_statements(_, _, _, _, _)
RECURSIVE subgraph_statements(_, _, _, _, _, _, _)

\* for subgraph in self.subgraphs: ...
subgraph_statements(D, b, Em, prefix, indent, mien, i) ==
    IF Em.err # "" \/ i > Len(D.blocks[b].subgraphs) THEN Em
    ELSE LET Closed(sub, bl, in) ==
                 subgraph_statements(D, b,
                     [in EXCEPT !.lines = Append(@, Line(prefix \o "}", "end",
                                                         sub, None, 0)),
                                !.n = bl.n],
                     prefix, indent, mien, i + 1)
             Opened(sub, bl, r) ==
                 Closed(sub, bl,
                     Block_statements(D, sub,
                         [bl EXCEPT
                            !.R = r.R,
                            !.lines = Append(@, Line(
                                prefix \o "subgraph "
                                    \o (IF IsNone(D.blocks[sub].graphid)
                                        THEN "" ELSE r.text \o " ") \o "{",
                                "subgraph", sub, None, 0))],
                         indent + 1, mien))
             Blank(sub, bl) ==
                 Opened(sub, bl,
                        IF IsNone(D.blocks[sub].graphid)
                        THEN [R |-> bl.R, text |-> ""]
                        ELSE NonceResolver_resolve(bl.R,
                                                   D.blocks[sub].graphid))
             Subgraph(sub) == Blank(sub, blankline(Em))
         IN  Subgraph(D.blocks[b].subgraphs[i])

\* Em.n on entry is the caller's count of blank lines; the result carries
\* the lines and the resolver, its n is for the caller to restore
Block_statements(D, b, Em, indent, mien) ==
    LET self   == D.blocks[b]
        prefix == str_repeat("    ", indent)
        base   == Len(Em.lines)
        Collapse(s, lines, blanklines) ==
            [s EXCEPT !.lines =
                IF \/ Len(lines) - base - blanklines <= 8
                   \/ blanklines = 1
                THEN SubSeq(lines, 1, base)
                     \o SelectSeq(SubSeq(lines, base + 1, Len(lines)),
                                  LAMBDA line : line.s # "")
                ELSE lines]
        Pop(s) ==
            IF s.err # "" THEN s
            ELSE IF s.lines[Len(s.lines)].s = ""
            THEN Collapse(s, SubSeq(s.lines, 1, Len(s.lines) - 1), s.n - 1)
            ELSE Collapse(s, s.lines, s.n)
        LabelStated(s, r) ==
            statement([s EXCEPT !.R = r.R], prefix,
                      "label=" \o prefer_quoted(r.text), <<>>,
                      "label", b, None, 0)
        LabelBlank(s, grapha) ==
            LabelStated(s, NonceResolver_resolve(s.R,
                                                 dict_get(grapha, "label")))
        Label(s, grapha) ==
            IF s.err = "" /\ dict_has(grapha, "label")
            THEN LabelBlank(blankline(s), grapha)
            ELSE s
        Subgraphs(s) ==
            subgraph_statements(D, b, s, prefix, indent, mien, 1)
        Edges(s) ==
            IF s.err # "" THEN s
            ELSE edge_statements(D, b, blankline(s), prefix, mien, 1)
        Nodes(s) ==
            node_statements(D, b, blankline(s), prefix, mien, 1)
        GraphAttrs(s, grapha) ==
            graph_attr_statements(blankline(s), prefix, grapha, b)
        Body(s, ir) ==
            IF ir.err # "" THEN [s EXCEPT !.err = ir.err]
            ELSE Pop(Label(Subgraphs(Edges(Nodes(GraphAttrs(s, ir.attrs)))),
                           ir.attrs))
        Default(s, name, attrs) ==
            IF attrs # <<>>
            THEN statement(s, prefix, name, attrs, name \o "_default", b,
                           None, 0)
            ELSE s
        Defaults(s) ==
            Default(Default(Default(s,
                "graph", IF b = 1 THEN mien.d_grapha ELSE self.d_grapha),
                "node", IF b = 1 THEN mien.d_nodea ELSE self.d_nodea),
                "edge", IF b = 1 THEN mien.d_edgea ELSE self.d_edgea)
    IN  Body(Defaults(blankline([Em EXCEPT !.n = 0])),
             integrate_role(IF b = 1 THEN mien.grapha ELSE self.grapha,
                            mien.graphroles))

\* str(dot): err is the exception raised, lines the lines joined by "\n",
\* R the resolver and mien the _Mien the call made
Dot_str(ds, dot) ==
    LET D == ds[dot]
        Comment(c) ==
            [i \in 1..Len(c) |-> Line("// " \o c[i], "comment", 1, None, 0)]
            \o <<Line("", "blank", 0, None, 0)>>
        Header(r) ==
            Line((IF D.strict THEN "strict " ELSE "")
                 \o (IF D.directed THEN "digraph " ELSE "graph ")
                 \o (IF IsNone(D.blocks[1].graphid) THEN ""
                     ELSE r.text \o " ")
                 \o "{", "header", 1, None, 0)
        Ended(m, st) ==
            IF st.err # ""
            THEN [err |-> st.err, lines |-> <<>>, R |-> <<>>, mien |-> m.mien]
            ELSE [err   |-> "",
                  lines |-> Append(st.lines, Line("}\n", "end", 1, None, 0)),
                  R     |-> st.R,
                  mien  |-> m.mien]
        Headed(m, r) ==
            Ended(m, Block_statements(D, 1,
                      [lines |-> Append(
                                     IF ~IsNone(D.comment) /\ D.comment.s # ""
                                     THEN Comment(str_splitlines(D.comment.s,
                                                                 ""))
                                     ELSE <<>>,
                                     Header(r)),
                       R     |-> r.R,
                       err   |-> "",
                       n     |-> 0],
                      1, m.mien))
        Resolver(m, R0) ==
            Headed(m, IF IsNone(D.blocks[1].graphid)
                      THEN [R |-> R0, text |-> ""]
                      ELSE NonceResolver_resolve(R0, D.blocks[1].graphid))
        Mien(m) ==
            IF m.hang THEN [err |-> "NonTermination", lines |-> <<>>,
                            R |-> <<>>, mien |-> m.mien]
            ELSE Resolver(m, NonceResolver_init(D, m.mien))
    IN  Mien(Mien_init(ds, dot))

\* '\n'.join(lines)
Dot_text(ds, dot) ==
    LET Joined(r) == str_join("\n", [i \in 1..Len(r.lines) |-> r.lines[i].s])
    IN  Joined(Dot_str(ds, dot))

(***************************************************************************)
(* What __str__ leaves in the objects it reads.  A dict the call works on  *)
(* is an object of a Dot d of the heap: the dict of a role (map            *)
(* "graphroles", "noderoles" or "edgeroles", key the role), the attributes *)
(* of a node (map "nodemap", key the node), of an _Edge (map "edgeobjs",   *)
(* i its index) or of a Block (map "grapha", i its index); or it is an     *)
(* object made during the call, NewObject.                                 *)
(***************************************************************************)
NewObject == [d |-> 0, map |-> "", key |-> None, i |-> 0]

Object(d, map, key, i) == [d |-> d, map |-> map, key |-> key, i |-> i]

\* a slip: no copy is made, the dict itself is used
dict_shared(obj) == obj

\* dict.copy(): a new object, whichever dict is copied
dict_copy(obj) == NewObject

\* a slip: roles[role_name], which makes the missing entry of a defaultdict
roles_getitem(roles, name) ==
    [found |-> TRUE,
     roles |-> IF dict_has(roles, name) THEN roles
               ELSE roles \o <<[k |-> name, v |-> <<>>]>>]

\* roles.get(role_name): whether a dict was found, and roles after the lookup
roles_get(roles, name) == [found |-> dict_has(roles, name), roles |-> roles]

\* the dict that obj is, in the heap ds
heap_load(ds, obj) ==
    CASE obj.map = "nodemap"  -> dict_get(ds[obj.d].nodemap, obj.key)
      [] obj.map = "edgeobjs" -> ds[obj.d].edgeobjs[obj.i].attrs
      [] obj.map = "grapha"   -> ds[obj.d].blocks[obj.i].grapha
      [] OTHER                -> dict_get(ds[obj.d][obj.map], obj.key)

\* the heap after the dict obj was given the content attrs
heap_store(ds, obj, attrs) ==
    CASE obj.d = 0 -> ds
      [] obj.map = "nodemap" ->
            [ds EXCEPT ![obj.d].nodemap = dict_set(@, obj.key, attrs)]
      [] obj.map = "edgeobjs" ->
            [ds EXCEPT ![obj.d].edgeobjs[obj.i].attrs = attrs]
      [] obj.map = "grapha" ->
            [ds EXCEPT ![obj.d].blocks[obj.i].grapha = attrs]
      [] OTHER ->
            [ds EXCEPT ![obj.d][obj.map] = dict_set(@, obj.key, attrs)]

\* _update_roles(target, source) with source the map of the Dot theme, from
\* its i-th role on; owners tells for every role of target which object its
\* dict is
RECURSIVE update_roles_heap(_, _, _, _, _)
update_roles_heap(ds, owners, theme, map, i) ==
    IF i > Len(ds[theme][map]) THEN [ds |-> ds, owners |-> owners]
    ELSE LET role         == ds[theme][map][i].k
             source_attrs == ds[theme][map][i].v
             Updated(target_attrs) ==
                 IF target_attrs.d = 0 THEN ds
                 ELSE heap_store(ds, target_attrs,
                                 dict_update(heap_load(ds, target_attrs),
                                             source_attrs))
         IN  IF dict_has(owners, role)
             THEN update_roles_heap(Updated(dict_get(owners, role)), owners,
                                    theme, map, i + 1)
             ELSE update_roles_heap(
                      ds,
                      dict_set(owners, role,
                               dict_copy(Object(theme, map, role, 0))),
                      theme, map, i + 1)

\* "for theme in reversed(stack)" for one of the role maps
RECURSIVE mien_heap(_, _, _, _)
mien_heap(ds, stack, map, owners) ==
    IF stack = <<>> THEN ds
    ELSE LET Merged(r) ==
                 mien_heap(r.ds, SubSeq(stack, 1, Len(stack) - 1), map,
                           r.owners)
         IN  Merged(update_roles_heap(ds, owners, stack[Len(stack)], map, 1))

\* the heap after _Mien.__init__: without a theme the _Mien refers to the
\* maps of the Dot and nothing is written
Mien_init_heap(ds, dot) ==
    LET Stack == <<dot>> \o theme_stack(ds, ds[dot].theme, Len(ds)).stack
    IN  IF ds[dot].theme = 0 THEN ds
        ELSE mien_heap(mien_heap(mien_heap(ds, Stack, "graphroles", <<>>),
                                 Stack, "noderoles", <<>>),
                       Stack, "edgeroles", <<>>)

\* the calls of _integrate_role that _statements makes for Block b and the
\* Blocks below it, in their order: the dict whose role is integrated and
\* the role map looked up
RECURSIVE integration_sites(_, _, _)
RECURSIVE subgraph_sites(_, _, _, _)
subgraph_sites(D, dot, b, i) ==
    IF i > Len(D.blocks[b].subgraphs) THEN <<>>
    ELSE integration_sites(D, dot, D.blocks[b].subgraphs[i])
         \o subgraph_sites(D, dot, b, i + 1)

integration_sites(D, dot, b) ==
    <<[obj |-> IF b = 1 /\ D.theme # 0 THEN NewObject
               ELSE Object(dot, "grapha", None, b),
       map |-> "graphroles"]>>
    \o [i \in 1..Len(D.blocks[b].nodes) |->
           [obj |-> Object(dot, "nodemap", D.blocks[b].nodes[i], 0),
            map |-> "noderoles"]]
    \o [i \in 1..Len(D.blocks[b].edges) |->
           [obj |-> Object(dot, "edgeobjs", None, D.blocks[b].edges[i]),
            map |-> "edgeroles"]]
    \o subgraph_sites(D, dot, b, 1)

\* the heap after the calls of _integrate_role from the i-th on; the first
\* role that is not defined ends the serialization
RECURSIVE integrate_role_heap(_, _, _, _, _)
integrate_role_heap(ds, dot, mien, sites, i) ==
    IF i > Len(sites) THEN ds
    ELSE LET obj == sites[i].obj
             map == sites[i].map
             Copied(looked, attrs, role_attrs) ==
                 integrate_role_heap(
                     heap_store(looked, dict_copy(obj),
                                dict_pop(role_fill(attrs, role_attrs),
                                         "role")),
                     dot, mien, sites, i + 1)
             Got(attrs, got) ==
                 IF ~got.found
                 THEN IF ds[dot].theme = 0
                      THEN [ds EXCEPT ![dot][map] = got.roles] ELSE ds
                 ELSE Copied(IF ds[dot].theme = 0
                             THEN [ds EXCEPT ![dot][map] = got.roles]
                             ELSE ds,
                             attrs,
                             dict_get(got.roles, dict_get(attrs, "role")))
             Integrate(attrs) ==
                 IF ~dict_has(attrs, "role")
                 THEN integrate_role_heap(ds, dot, mien, sites, i + 1)
                 ELSE Got(attrs,
                          roles_get(IF ds[dot].theme = 0 THEN ds[dot][map]
                                    ELSE mien[map],
                                    dict_get(attrs, "role")))
         IN  Integrate(IF obj.d = 0 THEN mien.grapha
                       ELSE heap_load(ds, obj))

\* the heap after str(dot)
Dot_str_heap(ds, dot) ==
    LET Stated(h) ==
            integrate_role_heap(h, dot, Mien_init(h, dot).mien,
                                integration_sites(h[dot], dot, 1), 1)
    IN  IF theme_stack(ds, ds[dot].theme, Len(ds)).hang THEN ds
        ELSE Stated(Mien_init_heap(ds, dot))

(***************************************************************************)
(* Rendering: Dot.to_rendered, to_svg, save and show.  What the operating  *)
(* system does with the program is an input oc: kind "oserror" (the        *)
(* program cannot be started, subprocess.run raises error), "exit" (it     *)
(* ran and left status, stdout and stderr) or "timeout" (it was stopped    *)
(* after the timeout; stderr is None or what it wrote).  The world outside *)
(* the program is W: W.ipython tells whether the IPython names were        *)
(* imported, W.files maps the files that exist to their content,           *)
(* W.started lists the commands started with their input and W.shown the   *)
(* objects displayed.  A result carries in ex the exception raised.        *)
(***************************************************************************)
Bytes(s) == [t |-> "bytes", s |-> s]

PathV(s) == [t |-> "path", s |-> s]

UpperCase == "ABCDEFGHIJKLMNOPQRSTUVWXYZ"

LowerCase == "abcdefghijklmnopqrstuvwxyz"

\* str.lower
RECURSIVE str_lower(_)
str_lower(s) ==
    IF s = "" THEN ""
    ELSE (IF \E i \in 1..26 : Char(UpperCase, i) = Char(s, 1)
          THEN Char(LowerCase,
                    CHOOSE i \in 1..26 : Char(UpperCase, i) = Char(s, 1))
          ELSE Char(s, 1))
         \o str_lower(SubSeq(s, 2, Len(s)))

\* a slip: the exit status of the program is not looked at
run_result_unchecked(program, timeout, oc) ==
    CASE oc.kind = "oserror" ->
           [err |-> "InvocationException",
            ex  |-> [program |-> program, cause |-> oc.error],
            ret |-> None]
      [] oc.kind = "timeout" ->
           [err |-> "TimeoutException",
            ex  |-> [program |-> program, timeout |-> timeout,
                     stderr  |-> IF IsNone(oc.stderr) THEN StrV("")
                                 ELSE StrV(oc.stderr.s)],
            ret |-> None]
      [] OTHER -> [err |-> "", ex |-> None, ret |-> oc.stdout]

\* the try statement of to_rendered around subprocess.run(command, ...,
\* timeout=timeout, check=True); the exception classes decode a stderr
\* given as bytes
run_result(program, timeout, oc) ==
    CASE oc.kind = "exit" /\ oc.status # 0 ->
           [err |-> "ProcessException",
            ex  |-> [program |-> program, status |-> oc.status,
                     stderr  |-> IF oc.stderr.t = "bytes"
                                 THEN StrV(oc.stderr.s) ELSE oc.stderr],
            ret |-> None]
      [] oc.kind = "timeout" ->
           IF IsNone(timeout)
           THEN [err |-> "AssertionError", ex |-> None, ret |-> None]
           ELSE [err |-> "TimeoutException",
                 ex  |-> [program |-> program, timeout |-> timeout,
                          stderr  |-> IF IsNone(oc.stderr) THEN StrV("")
                                      ELSE IF oc.stderr.t = "bytes"
                                      THEN StrV(oc.stderr.s) ELSE oc.stderr],
                 ret |-> None]
      [] oc.kind = "oserror" ->
           [err |-> "InvocationException",
            ex  |-> [program |-> program, cause |-> oc.error],
            ret |-> None]
      [] OTHER -> [err |-> "", ex |-> None, ret |-> oc.stdout]

\* a slip: the program is started before the DOT text is made
Dot_to_rendered_runfirst(ds, dot, W, program, format, dpi, size, ratio, timeout, directory, oc) ==
    LET command == <<program.s, "-T" \o str_lower(format.s)>>
        Run(r, text) ==
            IF text.err # ""
            THEN [err |-> text.err, ex |-> None, ret |-> None,
                  W   |-> IF oc.kind = "oserror" THEN W
                          ELSE [W EXCEPT !.started = Append(@,
                                   [command |-> command, input |-> ""])]]
            ELSE [err |-> r.err, ex |-> r.ex, ret |-> r.ret,
                  W   |-> IF oc.kind = "oserror" THEN W
                          ELSE [W EXCEPT !.started = Append(@,
                                   [command |-> command, input |-> ""])]]
    IN  Run(run_result(program.s, timeout, oc), Dot_str(ds, dot))

Dot_to_rendered(ds, dot, W, program, format, dpi, size, ratio, timeout, directory, oc) ==
    LET t_arg == "-T" \o str_lower(format.s)
        \* str(PurePath(directory, program)), str(program)
        pstr ==
            IF ~IsNone(directory) /\ Char(program.s, 1) # "/"
            THEN directory.s \o "/" \o program.s
            ELSE program.s
        Option(name, v) ==
            IF IsNone(v) THEN <<>> ELSE <<"-G" \o name \o "=" \o str_of(v)>>
        command ==
            <<pstr, t_arg>> \o Option("dpi", dpi) \o Option("size", size)
                            \o Option("ratio", ratio)
        Run(r, input) ==
            [err |-> r.err, ex |-> r.ex, ret |-> r.ret,
             W   |-> IF oc.kind = "oserror" THEN W
                     ELSE [W EXCEPT !.started = Append(@,
                              [command |-> command, input |-> input])]]
        Input(text) ==
            IF text.err # ""
            THEN [err |-> text.err, ex |-> None, ret |-> None, W |-> W]
            ELSE Run(run_result(pstr, timeout, oc),
                     str_join("\n", [i \in 1..Len(text.lines) |->
                                        text.lines[i].s]))
    IN  Input(Dot_str(ds, dot))

Dot_to_svg(ds, dot, W, program, inline, dpi, size, ratio, timeout, directory, oc) ==
    LET Decoded(r) ==
            IF r.err # "" THEN r ELSE [r EXCEPT !.ret = StrV(r.ret.s)]
    IN  Decoded(Dot_to_rendered(ds, dot, W, program,
                                StrV(IF inline THEN "svg_inline" ELSE "svg"),
                                dpi, size, ratio, timeout, directory, oc))

SaveFormats == {"svg", "png", "jpg", "jpeg", "gif", "pdf"}

\* PurePath.suffix of a file name without directories
Path_suffix(name) ==
    LET dots_at == {i \in 1..Len(name) : Char(name, i) = "."}
        Last(i) == IF 1 < i /\ i < Len(name)
                   THEN SubSeq(name, i, Len(name)) ELSE ""
    IN  IF dots_at = {} THEN ""
        ELSE Last(CHOOSE i \in dots_at : \A j \in dots_at : j <= i)

\* a slip: the file is opened before the program is run
Dot_save_openfirst(ds, dot, W, filename, program, exclusive, format, dpi, size, ratio, timeout, directory, oc) ==
    LET Written(r, W1) ==
            IF r.err # "" THEN [r EXCEPT !.W.files = W1.files]
            ELSE [r EXCEPT !.W.files = dict_set(W1.files, filename.s, r.ret),
                           !.ret = None]
        extension ==
            str_lower(IF Path_suffix(filename.s) = "" THEN ""
                      ELSE SubSeq(Path_suffix(filename.s), 2,
                                  Len(Path_suffix(filename.s))))
        Opened(W1, fmt) ==
            Written(Dot_to_rendered(ds, dot, W1, program, fmt, dpi, size,
                                    ratio, timeout, directory, oc), W1)
    IN  IF IsNone(format) /\ extension \notin SaveFormats
        THEN [err |-> "ValueError", ex |-> None, ret |-> None, W |-> W]
        ELSE IF exclusive /\ dict_has(W.files, filename.s)
        THEN [err |-> "FileExistsError", ex |-> None, ret |-> None, W |-> W]
        ELSE Opened([W EXCEPT !.files = dict_set(@, filename.s, Bytes(""))],
                    IF IsNone(format) THEN StrV(extension) ELSE format)

Dot_save(ds, dot, W, filename, program, exclusive, format, dpi, size, ratio, timeout, directory, oc) ==
    LET extension ==
            str_lower(IF Path_suffix(filename.s) = "" THEN ""
                      ELSE SubSeq(Path_suffix(filename.s), 2,
                                  Len(Path_suffix(filename.s))))
        \* with open(filepath, mode) as f: f.write(data)
        Written(r) ==
            IF r.err # "" THEN r
            ELSE IF exclusive /\ dict_has(r.W.files, filename.s)
            THEN [r EXCEPT !.err = "FileExistsError", !.ret = None]
            ELSE [r EXCEPT !.W.files = dict_set(@, filename.s, r.ret),
                           !.ret = None]
        Rendered(fmt) ==
            Written(Dot_to_rendered(ds, dot, W, program, fmt, dpi, size,
                                    ratio, timeout, directory, oc))
    IN  IF ~IsNone(format) THEN Rendered(format)
        ELSE IF extension \in SaveFormats THEN Rendered(StrV(extension))
        ELSE [err |-> "ValueError", ex |-> None, ret |-> None, W |-> W]

\* html.escape(s) of a str; what it is for another object depends on the
\* replace method of the object: a Path has one, of another signature
html_escape(v) ==
    IF v.t # "str" THEN [err |-> "TypeError", s |-> ""]
    ELSE [err |-> "",
          s   |-> str_replace(str_replace(str_replace(str_replace(str_replace(
                      v.s, "&", "&amp;"), "<", "&lt;"), ">", "&gt;"),
                      "\"", "&quot;"), "'", "&#x27;")]

Dot_show(ds, dot, W, program, format, dpi, size, ratio, timeout, directory, oc) ==
    LET Displayed(r, obj) ==
            [r EXCEPT !.W.shown = Append(@, obj), !.ret = None]
        \* the except clauses: the arguments of format() are evaluated
        \* first, html_escape(program) among them
        Explained(r, why) ==
            IF html_escape(program).err # ""
            THEN [r EXCEPT !.err = html_escape(program).err, !.ex = None]
            ELSE [Displayed(r, [t       |-> "Markdown",
                                why     |-> why,
                                program |-> html_escape(program).s])
                     EXCEPT !.err = "ShowException", !.ex = None]
        Handled(r, fmt) ==
            CASE r.err = "" ->
                   Displayed(r, [t    |-> IF fmt = "svg" THEN "SVG"
                                          ELSE "Image",
                                 data |-> r.ret])
              [] r.err = "InvocationException" -> Explained(r, "invoke")
              [] r.err = "ProcessException"    -> Explained(r, "exit")
              [] r.err = "TimeoutException"    -> Explained(r, "timeout")
              [] OTHER -> r
    IN  IF W.ipython
        THEN Handled(Dot_to_rendered(ds, dot, W, program,
                                     StrV(str_lower(format.s)), dpi, size,
                                     ratio, timeout, directory, oc),
                     str_lower(format.s))
        ELSE [err |-> "RuntimeError", ex |-> None, ret |-> None, W |-> W]

(***************************************************************************)
(* The API calls as actions.  d is the Dot and b the Block of d the call   *)
(* is made through.  A call that raises keeps what it changed before the   *)
(* exception.                                                              *)
(***************************************************************************)
Called(op, d, b, args, err, ret) ==
    /\ calls > 0
    /\ calls' = calls - 1
    /\ last' = [op |-> op, d |-> d, b |-> b, args |-> args, err |-> err,
                ret |-> ret]

NoCall == [op |-> "", d |-> 0, b |-> 0, args |-> <<>>, err |-> "", ret |-> 0]

\* the effect of an edge, edge_define or edge_update call with outcome r
EdgeCalled(op, d, b, args, r) ==
    /\ Called(op, d, b, args, r.err, 0)
    /\ dots' = [dots EXCEPT ![d] = r.dot]
    /\ ndisc' = IF r.kept THEN ndisc + 1 ELSE ndisc
    /\ UNCHANGED <<addr, out>>

\* the effect of a call on Dot d with outcome r that returns ret
DotCalled(op, d, b, args, r, ret) ==
    /\ Called(op, d, b, args, r.err, ret)
    /\ dots' = [dots EXCEPT ![d] = r.dot]
    /\ UNCHANGED <<addr, ndisc, out>>

edge(d, b, point1, point2, discriminant, attrs) ==
    EdgeCalled("edge", d, b, <<point1, point2, discriminant, attrs>>,
               Block_edge(dots[d], b, point1, point2, discriminant, attrs,
                          -(ndisc + 1)))

edge_define(d, b, point1, point2, discriminant, attrs) ==
    EdgeCalled("edge_define", d, b, <<point1, point2, discriminant, attrs>>,
               Block_edge_define(dots[d], b, point1, point2, discriminant,
                                 attrs, -(ndisc + 1)))

edge_update(d, b, point1, point2, discriminant, attrs) ==
    EdgeCalled("edge_update", d, b, <<point1, point2, discriminant, attrs>>,
               Block_edge_update(dots[d], b, point1, point2, discriminant,
                                 attrs, -(ndisc + 1)))

node(d, b, id, attrs) ==
    DotCalled("node", d, b, <<id, attrs>>,
              Block_node(dots[d], b, id, attrs), 0)

node_define(d, b, id, attrs) ==
    DotCalled("node_define", d, b, <<id, attrs>>,
              Block_node_define(dots[d], b, id, attrs), 0)

node_update(d, b, id, attrs) ==
    DotCalled("node_update", d, b, <<id, attrs>>,
              Block_node_update(dots[d], b, id, attrs), 0)

subgraph(d, b, id) ==
    LET Returned(r) == DotCalled("subgraph", d, b, <<id>>, r, r.ret)
    IN  Returned(Block_subgraph(dots[d], b, id))

subgraph_define(d, b, id) ==
    LET Returned(r) == DotCalled("subgraph_define", d, b, <<id>>, r, r.ret)
    IN  Returned(Block_subgraph_define(dots[d], b, id))

subgraph_update(d, b, id) ==
    LET Returned(r) == DotCalled("subgraph_update", d, b, <<id>>, r, r.ret)
    IN  Returned(Block_subgraph_update(dots[d], b, id))

\* the effect of a call on the heap of Dots with outcome r
HeapCalled(op, d, args, r, ret) ==
    /\ Called(op, d, 1, args, r.err, ret)
    /\ dots' = r.dots
    /\ UNCHANGED <<addr, ndisc, out>>

\* Dot(...): the new Dot is the last of the heap
Dot(directed, strict, multigraph, id) ==
    HeapCalled("Dot", Len(dots) + 1, <<directed, strict, multigraph, id>>,
               IF ~IsNone(id) /\ ~IsID(id)
               THEN [dots |-> dots, err |-> "ValueError"]
               ELSE [dots |-> Append(dots, Dot_init(directed, strict,
                                                    multigraph, id)),
                     err  |-> ""],
               Len(dots) + 1)

use_theme(d, theme) ==
    HeapCalled("use_theme", d, <<theme>>, Dot_use_theme(dots, d, theme), d)

copy(d, id, comment) ==
    HeapCalled("copy", d, <<id, comment>>, Dot_copy(dots, d, id, comment),
               Len(dots) + 1)

graph(d, b, attrs) ==
    DotCalled("graph", d, b, <<attrs>>, Block_graph(dots[d], b, attrs), 0)

node_default(d, b, attrs) ==
    DotCalled("node_default", d, b, <<attrs>>,
              Block_node_default(dots[d], b, attrs), 0)

all_default(d, b, attrs) ==
    DotCalled("all_default", d, b, <<attrs>>,
              Block_all_default(dots[d], b, attrs), 0)

graph_default(d, b, attrs) ==
    DotCalled("graph_default", d, b, <<attrs>>,
              Block_graph_default(dots[d], b, attrs), 0)

edge_default(d, b, attrs) ==
    DotCalled("edge_default", d, b, <<attrs>>,
              Block_edge_default(dots[d], b, attrs), 0)

graph_role(d, role, attrs) ==
    DotCalled("graph_role", d, 1, <<role, attrs>>,
              Dot_graph_role(dots[d], role, attrs), 0)

edge_role(d, role, attrs) ==
    DotCalled("edge_role", d, 1, <<role, attrs>>,
              Dot_edge_role(dots[d], role, attrs), 0)

node_role(d, role, attrs) ==
    DotCalled("node_role", d, 1, <<role, attrs>>,
              Dot_node_role(dots[d], role, attrs), 0)

all_role(d, role, attrs) ==
    DotCalled("all_role", d, 1, <<role, attrs>>,
              Dot_all_role(dots[d], role, attrs), 0)

\* a slip: nodemap[key], which makes the missing entry of the defaultdict
nodemap_getitem(nodemap, key) ==
    [found   |-> TRUE,
     nodemap |-> IF dict_has(nodemap, key) THEN nodemap
                 ELSE nodemap \o <<[k |-> key, v |-> <<>>]>>]

\* "key in nodemap": the answer, and nodemap after the test
nodemap_contains(nodemap, key) ==
    [found |-> dict_has(nodemap, key), nodemap |-> nodemap]

\* block.node_is_defined(id); ret is the answer
node_is_defined(d, b, id) ==
    LET Tested(c) ==
            DotCalled("node_is_defined", d, b, <<id>>,
                      [dot |-> [dots[d] EXCEPT !.nodemap = c.nodemap],
                       err |-> ""],
                      BoolV(c.found))
    IN  IF ~IsID(id)
        THEN DotCalled("node_is_defined", d, b, <<id>>,
                       [dot |-> dots[d], err |-> "ValueError"], 0)
        ELSE Tested(nodemap_contains(dots[d].nodemap, normalize(id)))

\* block.edge_is_defined(point1, point2, discriminant); ret is the answer
edge_is_defined(d, b, point1, point2, discriminant) ==
    LET Tested(r) ==
            DotCalled("edge_is_defined", d, b,
                      <<point1, point2, discriminant>>,
                      [dot |-> dots[d], err |-> r.err],
                      IF r.err # "" THEN 0 ELSE BoolV(r.ret))
    IN  Tested(Block_edge_is_defined(dots[d], point1, point2, discriminant,
                                     -(ndisc + 1)))

\* str(dot): out keeps, for every Dot, its latest serialization, in prev
\* the lines of the one before, and in seen the Dot and the Dots of its
\* theme chain as they were when it was serialized
str(d) ==
    LET Seen(dot) ==
            [i \in 1..(1 + Len(theme_stack(dots, dots[dot].theme,
                                           Len(dots)).stack)) |->
                dots[(<<dot>> \o theme_stack(dots, dots[dot].theme,
                                            Len(dots)).stack)[i]]]
        Returned(r) ==
            /\ Called("str", d, 1, <<>>, r.err, 0)
            /\ out' = [out EXCEPT ![d] = [op    |-> "str",
                                          err   |-> r.err,
                                          lines |-> r.lines,
                                          R     |-> r.R,
                                          mien  |-> r.mien,
                                          prev  |-> IF @.op = "str"
                                                    THEN @.lines ELSE <<>>,
                                          seen  |-> Seen(d)]]
            /\ dots' = Dot_str_heap(dots, d)
            /\ UNCHANGED <<addr, ndisc>>
    IN  Returned(Dot_str(dots, d))

\* the rendering calls: r is the outcome; a call that raises returns in ret
\* the exception object
RenderCalled(op, d, args, r) ==
    /\ Called(op, d, 1, args, r.err, IF r.err # "" THEN r.ex ELSE r.ret)
    /\ out' = r.W
    /\ UNCHANGED <<dots, addr, ndisc>>

to_rendered(d, program, format, timeout, directory, oc) ==
    RenderCalled("to_rendered", d, <<program, format, timeout, directory, oc>>,
             Dot_to_rendered(dots, d, out, program, format, None, None, None,
                             timeout, directory, oc))

to_svg(d, program, inline, size, oc) ==
    RenderCalled("to_svg", d, <<program, inline, size, oc>>,
             Dot_to_svg(dots, d, out, program, inline, None, size, None,
                        None, None, oc))

save(d, filename, program, exclusive, format, timeout, oc) ==
    RenderCalled("save", d, <<filename, program, exclusive, format, timeout, oc>>,
             Dot_save(dots, d, out, filename, program, exclusive, format,
                      None, None, None, timeout, None, oc))

show(d, program, format, timeout, oc) ==
    RenderCalled("show", d, <<program, format, timeout, oc>>,
             Dot_show(dots, d, out, program, format, None, None, None,
                      timeout, None, oc))

\* _normalize(id, what), as an API call makes it on an argument
normalize_id(v) ==
    /\ Called("_normalize", 0, 0, <<v>>,
              IF IsID(v) THEN "" ELSE "ValueError",
              IF IsID(v) THEN normalize(v) ELSE None)
    /\ UNCHANGED <<dots, addr, ndisc, out>>

(***************************************************************************)
(* Edges of a Dot that is not a multigraph: the application makes edge,    *)
(* edge_define and edge_update calls through the Dot and through a         *)
(* subgraph of it.  N1 and N2 are Nonces the application holds; id()       *)
(* orders them either way.                                                 *)
(***************************************************************************)
N1 == Nonce(1, "_nonce")

N2 == Nonce(2, "_nonce")

MaxEdgeCalls == 2

AddrOrders == {<<1, 2>>, <<2, 1>>}

Red == <<[k |-> "color", v |-> StrV("red")]>>

Blue == <<[k |-> "color", v |-> StrV("blue")]>>

EdgePairs ==
    {<<StrV("a"), StrV("b")>>, <<StrV("b"), StrV("a")>>,
     <<Port(StrV("a"), StrV("p"), StrV("n")), StrV("b")>>,
     <<StrV("b"), Port(StrV("a"), None, StrV("s"))>>,
     <<N1, N2>>, <<N2, N1>>, <<N1, StrV("a")>>, <<StrV("a"), N1>>}

WithSubgraph(D) == Block_subgraph(D, 1, None).dot

InitEdge ==
    /\ \E directed \in BOOLEAN :
          dots = <<WithSubgraph(Dot_init(directed, FALSE, FALSE, None))>>
    /\ addr \in AddrOrders
    /\ ndisc = 0
    /\ calls = MaxEdgeCalls
    /\ last = NoCall
    /\ out = NoCall

NextEdge ==
    \/ \E b \in 1..2, p \in EdgePairs, a \in {<<>>, Red} :
          edge(1, b, p[1], p[2], None, a)
    \/ \E b \in 1..2, p \in EdgePairs :
          edge_define(1, b, p[1], p[2], None, <<>>)
    \/ \E p \in EdgePairs :
          edge_update(1, 1, p[1], p[2], None, Blue)

SpecEdge == InitEdge /\ [][NextEdge]_vars

(***************************************************************************)
(* Properties of edge identity.                                            *)
(***************************************************************************)
\* the edge objects listed by the Blocks of D, Block after Block
RECURSIVE ListedEdges(_, _)
ListedEdges(D, b) ==
    IF b > Len(D.blocks) THEN <<>>
    ELSE D.blocks[b].edges \o ListedEdges(D, b + 1)

EdgePair(ed) == <<ed.normport1.node, ed.normport2.node>>

SamePair(directed, p, q) == p = q \/ (~directed /\ p = <<q[2], q[1]>>)

\* the node pair named by the endpoint arguments of an edge call
CallPair(call) ==
    <<NormPort_init(call.args[1]).node, NormPort_init(call.args[2]).node>>

IsEdgeCall(call) == call.op \in {"edge", "edge_define", "edge_update"}

\* the edge objects of D stored for the pair p
EdgesOfPair(D, p) ==
    {e \in 1..Len(D.edgeobjs) : SamePair(D.directed, EdgePair(D.edgeobjs[e]), p)}

OneEdgePerPair(D) ==
    LET listed == ListedEdges(D, 1) IN
    /\ Len(listed) = Len(D.edgeobjs)
    /\ \A i, j \in 1..Len(listed) :
          i # j => /\ listed[i] # listed[j]
                   /\ ~SamePair(D.directed, EdgePair(D.edgeobjs[listed[i]]),
                                EdgePair(D.edgeobjs[listed[j]]))

C1_Inv == \A d \in 1..Len(dots) : ~dots[d].multigraph => OneEdgePerPair(dots[d])

\* an edge() call amends when the pair is stored and defines one edge when
\* it is not; in a directed Dot the reverse pair does not count as stored
C1_Step ==
    (last'.op = "edge" /\ last'.err = "" /\ ~dots[last'.d].multigraph) =>
        LET D  == dots[last'.d]
            D2 == dots'[last'.d]
        IN  IF EdgesOfPair(D, CallPair(last')) # {}
            THEN /\ Len(D2.edgeobjs) = Len(D.edgeobjs)
                 /\ ListedEdges(D2, 1) = ListedEdges(D, 1)
            ELSE /\ Len(D2.edgeobjs) = Len(D.edgeobjs) + 1
                 /\ D2.blocks[last'.b].edges
                        = Append(D.blocks[last'.b].edges, Len(D2.edgeobjs))
                 /\ EdgePair(D2.edgeobjs[Len(D2.edgeobjs)]) = CallPair(last')

\* C1: in a Dot that is not a multigraph, after any edge, edge_define and
\* edge_update calls through any Block, at most one edge is stored per node
\* pair (ordered if directed, unordered otherwise): edge() on a stored pair
\* amends, and in a directed Dot (a,b) and (b,a) are two edges
C1_OneEdgePerPair == []C1_Inv /\ [][C1_Step]_vars

\* an edge() made through the subgraph amended the one edge of its pair,
\* which the Dot itself lists
C1_Witness ==
    /\ last.op = "edge" /\ last.err = "" /\ last.b = 2
    /\ ~dots[1].multigraph
    /\ Len(dots[1].edgeobjs) = 1
    /\ dots[1].blocks[1].edges = <<1>>
    /\ dots[1].edgeobjs[1].attrs # <<>>

\* the position of the first occurrence of sub in s, 0 when there is none
RECURSIVE str_find(_, _, _)
str_find(s, sub, i) ==
    IF i + Len(sub) - 1 > Len(s) THEN 0
    ELSE IF SubSeq(s, i, i + Len(sub) - 1) = sub THEN i
    ELSE str_find(s, sub, i + 1)

\* the text a normalized ID has in the output r of Dot_str
ResolvedText(r, normid) ==
    IF IsText(normid) THEN normid.s ELSE dict_get(r.R.nonce_id, normid)

\* the line of r that states edge object e
EdgeLine(r, e) ==
    r.lines[CHOOSE i \in 1..Len(r.lines) :
                r.lines[i].kind = "edge" /\ r.lines[i].e = e]

\* line (less its indentation) reads "<first>[:port] <op> <second>[:port]..."
RendersAs(line, indent, first, op, second) ==
    LET t   == SubSeq(line.s, 4 * indent + 1, Len(line.s))
        at  == str_find(t, op, 1)
        lhs == SubSeq(t, 1, at - 1)
        rhs == SubSeq(t, at + Len(op), Len(t))
    IN  /\ at > 0
        /\ SubSeq(lhs, 1, Len(first)) = first
        /\ Len(lhs) > Len(first) => Char(lhs, Len(first) + 1) = ":"
        /\ SubSeq(rhs, 1, Len(second)) = second
        /\ Len(rhs) > Len(second) => Char(rhs, Len(second) + 1) \in {":", " "}

\* the call of this step is edge(a, b) on a non-directed Dot that stores
\* the edge as b -- a
IsReversingCall ==
    /\ last'.op = "edge" /\ last'.err = ""
    /\ ~dots[last'.d].directed
    /\ CallPair(last')[1] # CallPair(last')[2]
    /\ \E e \in 1..Len(dots[last'.d].edgeobjs) :
          /\ EdgePair(dots[last'.d].edgeobjs[e])
                = <<CallPair(last')[2], CallPair(last')[1]>>
          /\ IsNone(last'.args[3]) = IsNone(dots[last'.d].edgeobjs[e].normdisc)
          /\ ~IsNone(last'.args[3]) =>
                 normalize(last'.args[3]) = dots[last'.d].edgeobjs[e].normdisc

C2_Step ==
    IsReversingCall =>
        LET D  == dots[last'.d]
            D2 == dots'[last'.d]
            e  == CHOOSE x \in 1..Len(D.edgeobjs) :
                     /\ EdgePair(D.edgeobjs[x])
                           = <<CallPair(last')[2], CallPair(last')[1]>>
                     /\ ~IsNone(last'.args[3]) =>
                            normalize(last'.args[3]) = D.edgeobjs[x].normdisc
            r  == Dot_str(dots', last'.d)
        IN  /\ Len(D2.edgeobjs) = Len(D.edgeobjs)
            /\ ListedEdges(D2, 1) = ListedEdges(D, 1)
            /\ D2.edgeobjs[e].attrs
                  = set_attrs(D.edgeobjs[e].attrs, last'.args[4], TRUE).attrs
            /\ r.err = ""
            /\ RendersAs(EdgeLine(r, e),
                         IF e \in {D2.blocks[1].edges[i] :
                                      i \in 1..Len(D2.blocks[1].edges)}
                         THEN 1 ELSE 2,
                         ResolvedText(r, CallPair(last')[1]), " -- ",
                         ResolvedText(r, CallPair(last')[2]))

\* C2: in a non-directed Dot, edge(a,b) followed by edge(b,a) leaves one
\* stored edge; the second call amends the attributes of that edge, which
\* is then rendered in the order of the latest call, b -- a
C2_ReverseAmends == [][C2_Step]_vars

\* edge(a,b) then edge(b,a,color=red): one edge, stored as b, a
C2_Witness ==
    /\ last.op = "edge" /\ last.err = ""
    /\ ~dots[1].directed
    /\ last.args[1] = StrV("b") /\ last.args[2] = StrV("a")
    /\ last.args[4] = Red
    /\ calls = MaxEdgeCalls - 2
    /\ Len(dots[1].edgeobjs) = 1
    /\ EdgePair(dots[1].edgeobjs[1]) = <<StrV("b"), StrV("a")>>
    /\ dots[1].edgeobjs[1].attrs = Red

(***************************************************************************)
(* Edges of a multigraph: the application makes edge, edge_define and      *)
(* edge_update calls with and without a discriminant.                      *)
(***************************************************************************)
MaxMultiCalls == 3

Bold == <<[k |-> "style", v |-> StrV("bold")]>>

Discriminants == {None, StrV("x"), StrV("y")}

MultiPairs == {<<StrV("a"), StrV("b")>>, <<StrV("b"), StrV("a")>>}

InitMulti ==
    /\ \E directed \in BOOLEAN :
          dots = <<WithSubgraph(Dot_init(directed, FALSE, TRUE, None))>>
    /\ addr = <<1, 2>>
    /\ ndisc = 0
    /\ calls = MaxMultiCalls
    /\ last = NoCall
    /\ out = NoCall

NextMulti ==
    \/ \E p \in MultiPairs, x \in Discriminants, a \in {Red, Bold} :
          edge(1, 1, p[1], p[2], x, a)
    \/ \E x \in {None, StrV("x")} :
          edge(1, 2, StrV("b"), StrV("a"), x, Bold)
    \/ \E x \in {None, StrV("x")} :
          edge_define(1, 1, StrV("a"), StrV("b"), x, <<>>)
    \/ \E x \in {None, StrV("x")} :
          edge_update(1, 2, StrV("b"), StrV("a"), x, Blue)

SpecMulti == InitMulti /\ [][NextMulti]_vars

\* the edge objects of D that have the pair and the explicit discriminant
\* of an edge call; none when the call omits the discriminant
EdgesNamed(D, call) ==
    {e \in 1..Len(D.edgeobjs) :
        /\ ~IsNone(call.args[3])
        /\ SamePair(D.directed, EdgePair(D.edgeobjs[e]), CallPair(call))
        /\ D.edgeobjs[e].normdisc = normalize(call.args[3])}

\* "name=value ..." for attributes whose values are plain identifiers
RECURSIVE PlainAttrText(_)
PlainAttrText(attrs) ==
    IF attrs = <<>> THEN ""
    ELSE Head(attrs).k \o "=" \o Head(attrs).v.s
         \o (IF Len(attrs) > 1 THEN " " ELSE "") \o PlainAttrText(Tail(attrs))

\* the statement of an edge with plain node ids, no ports and plain
\* attribute values, in a Block at depth indent
PlainEdgeText(ed, indent) ==
    str_repeat("    ", indent)
        \o ed.normport1.node.s
        \o (IF ed.directed THEN " -> " ELSE " -- ")
        \o ed.normport2.node.s
        \o (IF ed.attrs = <<>> THEN ""
            ELSE " [" \o PlainAttrText(ed.attrs) \o "]")

\* the edge statements of the output r of Dot_str are, one for one, the
\* edge objects of D, each with the attributes of its own edge object
OwnEdgeStatements(D, r) ==
    /\ r.err = ""
    /\ \A e \in 1..Len(D.edgeobjs) :
          \E i \in 1..Len(r.lines) :
             /\ r.lines[i].kind = "edge" /\ r.lines[i].e = e
             /\ r.lines[i].s = PlainEdgeText(D.edgeobjs[e],
                                              IF r.lines[i].b = 1 THEN 1 ELSE 2)
             /\ \A j \in 1..Len(r.lines) :
                   (r.lines[j].kind = "edge" /\ r.lines[j].e = e) => j = i
    /\ \A i \in 1..Len(r.lines) :
          r.lines[i].kind = "edge" => r.lines[i].e \in 1..Len(D.edgeobjs)

\* no two edges of a multigraph have the same pair and discriminant, and
\* the serialization states every edge once, with its own attributes
C3_Inv ==
    \A d \in 1..Len(dots) :
        dots[d].multigraph =>
            /\ \A e, f \in 1..Len(dots[d].edgeobjs) :
                  (/\ SamePair(dots[d].directed, EdgePair(dots[d].edgeobjs[e]),
                               EdgePair(dots[d].edgeobjs[f]))
                   /\ dots[d].edgeobjs[e].normdisc
                         = dots[d].edgeobjs[f].normdisc) => e = f
            /\ OwnEdgeStatements(dots[d], Dot_str(dots, d))

\* what an edge() call on the multigraph D does, given the edges named
C3_Effect(D, D2, call, named) ==
    IF named # {}
    THEN /\ Cardinality(named) = 1
         /\ Len(D2.edgeobjs) = Len(D.edgeobjs)
         /\ ListedEdges(D2, 1) = ListedEdges(D, 1)
         /\ \A e \in 1..Len(D.edgeobjs) :
               /\ EdgePair(D2.edgeobjs[e]) \in
                      {EdgePair(D.edgeobjs[e]),
                       <<EdgePair(D.edgeobjs[e])[2], EdgePair(D.edgeobjs[e])[1]>>}
               /\ D2.edgeobjs[e].normdisc = D.edgeobjs[e].normdisc
               /\ D2.edgeobjs[e].attrs =
                     IF e \in named
                     THEN set_attrs(D.edgeobjs[e].attrs, call.args[4],
                                    TRUE).attrs
                     ELSE D.edgeobjs[e].attrs
               /\ e \notin named => D2.edgeobjs[e] = D.edgeobjs[e]
    ELSE /\ Len(D2.edgeobjs) = Len(D.edgeobjs) + 1
         /\ D2.blocks[call.b].edges
               = Append(D.blocks[call.b].edges, Len(D2.edgeobjs))
         /\ EdgePair(D2.edgeobjs[Len(D2.edgeobjs)]) = CallPair(call)
         /\ D2.edgeobjs[Len(D2.edgeobjs)].attrs
               = set_attrs(<<>>, call.args[4], TRUE).attrs
         /\ ~IsNone(call.args[3]) =>
                D2.edgeobjs[Len(D2.edgeobjs)].normdisc
                   = normalize(call.args[3])
         /\ \A e \in 1..Len(D.edgeobjs) : D2.edgeobjs[e] = D.edgeobjs[e]

C3_Step ==
    (last'.op = "edge" /\ last'.err = "" /\ dots[last'.d].multigraph) =>
        C3_Effect(dots[last'.d], dots'[last'.d], last',
                  EdgesNamed(dots[last'.d], last'))

\* C3: in a multigraph Dot an edge is identified by its node pair and its
\* discriminant: edge() with an explicit discriminant amends the edge of
\* that pair and discriminant if there is one and defines a new edge
\* otherwise, edge() without a discriminant always defines a new edge and
\* changes no earlier one, and every edge statement of the serialization
\* carries the attributes of its own edge only
C3_MultigraphIdentity == []C3_Inv /\ [][C3_Step]_vars

\* edges (a,b,"x") and (a,b,"y") exist side by side, and the latest edge()
\* call amended the first of them, which now has two attributes
C3_Witness ==
    /\ last.op = "edge" /\ last.err = "" /\ last.args[3] = StrV("x")
    /\ dots[1].multigraph
    /\ Len(dots[1].edgeobjs) = 2
    /\ dots[1].edgeobjs[1].normdisc = StrV("x")
    /\ dots[1].edgeobjs[2].normdisc = StrV("y")
    /\ SamePair(dots[1].directed, EdgePair(dots[1].edgeobjs[1]),
                EdgePair(dots[1].edgeobjs[2]))
    /\ Len(dots[1].edgeobjs[1].attrs) = 2
    /\ Len(dots[1].edgeobjs[2].attrs) = 1

(***************************************************************************)
(* Nodes: the application makes node, node_define and node_update calls    *)
(* through a Dot, its subgraph s1 and the subgraph s2 of s1.               *)
(***************************************************************************)
MaxNodeCalls == 2

WithNested(D) ==
    Block_subgraph(Block_subgraph(D, 1, StrV("s1")).dot, 2, StrV("s2")).dot

Attr(k, v) == <<[k |-> k, v |-> v]>>

\* keyword arguments of a call, each attribute named once
AttrSets ==
    {<<>>,
     Red,
     Attr("color", StrV("blue")) \o Attr("shape", StrV("box")),
     Attr("color", None),
     Attr("shape", None) \o Attr("color", StrV("red")),
     Attr("shape_", StrV("oval"))}

InitNode ==
    /\ dots = <<WithNested(Dot_init(FALSE, FALSE, FALSE, None))>>
    /\ addr = <<1, 2>>
    /\ ndisc = 0
    /\ calls = MaxNodeCalls
    /\ last = NoCall
    /\ out = NoCall

NextNode ==
    \/ \E b \in 1..3, a \in AttrSets : node(1, b, StrV("a"), a)
    \/ \E b \in 2..3, id \in {IntV(1), StrV("1")}, a \in {<<>>, Red} :
          node(1, b, id, a)
    \/ \E b \in 1..2 : node_define(1, b, StrV("a"), Red)
    \/ \E b \in {1, 3} : node_update(1, b, StrV("a"), Attr("color", None))

SpecNode == InitNode /\ [][NextNode]_vars

\* the number of Blocks b..Len(D.blocks) entries that list the node key
RECURSIVE TimesListed(_, _, _)
TimesListed(D, key, b) ==
    IF b > Len(D.blocks) THEN 0
    ELSE Cardinality({i \in 1..Len(D.blocks[b].nodes) :
                         D.blocks[b].nodes[i] = key})
         + TimesListed(D, key, b + 1)

\* the Block of D that lists the node key
ListingBlock(D, key) ==
    CHOOSE b \in 1..Len(D.blocks) :
        \E i \in 1..Len(D.blocks[b].nodes) : D.blocks[b].nodes[i] = key

\* nesting depth of Block b, 1 for the Dot
RECURSIVE Depth(_, _)
Depth(D, b) == IF b = 1 THEN 1 ELSE 1 + Depth(D, D.blocks[b].parent)

RECURSIVE LeadingSpaces(_)
LeadingSpaces(s) ==
    IF Len(s) > 0 /\ Char(s, 1) = " "
    THEN 1 + LeadingSpaces(SubSeq(s, 2, Len(s)))
    ELSE 0

\* the line that opens the braces enclosing line i: the nearest earlier
\* line that is indented less
OpeningLine(lines, i) ==
    CHOOSE j \in 1..(i - 1) :
        /\ lines[j].s # ""
        /\ LeadingSpaces(lines[j].s) < LeadingSpaces(lines[i].s)
        /\ \A k \in (j + 1)..(i - 1) :
              lines[k].s = "" \/
              LeadingSpaces(lines[k].s) >= LeadingSpaces(lines[i].s)

\* the text that opens Block b of a Dot without id whose subgraphs have
\* plain ids
PlainOpening(D, b) ==
    IF b = 1 THEN (IF D.directed THEN "digraph {" ELSE "graph {")
    ELSE str_repeat("    ", Depth(D, b) - 1)
         \o "subgraph " \o D.blocks[b].graphid.s \o " {"

\* the statement of a node with a plain id and plain attribute values
PlainNodeText(key, attrs, indent) ==
    str_repeat("    ", indent) \o key.s
        \o (IF attrs = <<>> THEN "" ELSE " [" \o PlainAttrText(attrs) \o "]")

\* every node of D is listed by one Block, and the output r of Dot_str has
\* one statement for it, with all its attributes, inside the braces of
\* that Block
OneNodeStatement(D, r) ==
    /\ r.err = ""
    /\ \A i \in 1..Len(D.nodemap), j \in 1..Len(D.nodemap) :
          D.nodemap[i].k = D.nodemap[j].k => i = j
    /\ \A key \in dict_keys(D.nodemap) :
          /\ TimesListed(D, key, 1) = 1
          /\ \E i \in 1..Len(r.lines) :
                /\ r.lines[i].kind = "node" /\ r.lines[i].key = key
                /\ r.lines[i].s =
                      PlainNodeText(key, dict_get(D.nodemap, key),
                                    Depth(D, ListingBlock(D, key)))
                /\ r.lines[OpeningLine(r.lines, i)].s
                      = PlainOpening(D, ListingBlock(D, key))
                /\ \A j \in 1..Len(r.lines) :
                      (r.lines[j].kind = "node" /\ r.lines[j].key = key)
                          => j = i
    /\ \A i \in 1..Len(r.lines) :
          r.lines[i].kind = "node" => r.lines[i].key \in dict_keys(D.nodemap)

C4_Inv == \A d \in 1..Len(dots) : OneNodeStatement(dots[d], Dot_str(dots, d))

\* a call that names a node not yet defined lists it in the Block of the
\* call; a call that names a defined node changes no Block's list
C4_Effect(D, D2, call, key) ==
    /\ \A b \in 1..Len(D.blocks) :
          D2.blocks[b].nodes =
              IF b = call.b /\ ~dict_has(D.nodemap, key)
              THEN Append(D.blocks[b].nodes, key)
              ELSE D.blocks[b].nodes
    /\ dict_has(D2.nodemap, key)
    /\ \A k \in dict_keys(D.nodemap) \ {key} :
          dict_get(D2.nodemap, k) = dict_get(D.nodemap, k)

C4_Step ==
    (last'.op \in {"node", "node_define", "node_update"} /\ last'.err = "") =>
        C4_Effect(dots[last'.d], dots'[last'.d], last',
                  normalize(last'.args[1]))

\* C4: a node belongs to the Dot, not to a Block: whichever Block a call
\* names it through, there is one node and one attribute set; the Block
\* of the call that first defined the node lists it for good, and the one
\* statement of the node is emitted inside that Block
C4_NodeIdentity == []C4_Inv /\ [][C4_Step]_vars

\* node a was defined through the innermost subgraph and then amended
\* through the Dot itself
C4_Witness ==
    /\ last.op = "node" /\ last.err = "" /\ last.b = 1
    /\ last.args[1] = StrV("a") /\ last.args[2] = Red
    /\ calls = MaxNodeCalls - 2
    /\ dots[1].blocks[3].nodes = <<StrV("a")>>
    /\ dots[1].blocks[1].nodes = <<>>
    /\ Len(dict_get(dots[1].nodemap, StrV("a"))) = 2

\* attributes as a mapping from names to values
AsMap(attrs) == {<<attrs[i].k, attrs[i].v>> : i \in 1..Len(attrs)}

\* the attribute names the keyword arguments assign
Assigned(attrargs) == {attr_name(attrargs[i].k) : i \in 1..Len(attrargs)}

\* the value the keyword arguments assign last to the attribute name
LastValue(attrargs, name) ==
    attrargs[CHOOSE i \in 1..Len(attrargs) :
                /\ attr_name(attrargs[i].k) = name
                /\ \A j \in (i + 1)..Len(attrargs) :
                      attr_name(attrargs[j].k) # name].v

\* the attributes old after the assignments attrargs: an assigned name has
\* its last value, or is absent when that value is None
Merged(old, attrargs) ==
    {p \in AsMap(old) : p[1] \notin Assigned(attrargs)}
    \cup {<<n, normalize(LastValue(attrargs, n))>> :
             n \in {m \in Assigned(attrargs) :
                       ~IsNone(LastValue(attrargs, m))}}

\* the attributes of the node key of D, none when it is not defined
NodeAttrs(D, key) ==
    IF dict_has(D.nodemap, key) THEN dict_get(D.nodemap, key) ELSE <<>>

\* node(id, **A1) took D to D2: the node has the attributes merged, and any
\* node(id, **A2) that follows leaves what the one call node(id, **A1 updated
\* by A2) would have left
C5_Effect(D, D2, b, id, A1) ==
    /\ AsMap(NodeAttrs(D2, normalize(id)))
          = Merged(NodeAttrs(D, normalize(id)), A1)
    /\ \A A2 \in AttrSets :
          AsMap(NodeAttrs(Block_node(D2, b, id, A2).dot, normalize(id)))
             = AsMap(NodeAttrs(Block_node(D, b, id, dict_update(A1, A2)).dot,
                               normalize(id)))

C5_Step ==
    (last'.op = "node" /\ last'.err = "") =>
        C5_Effect(dots[last'.d], dots'[last'.d], last'.b, last'.args[1],
                  last'.args[2])

\* C5: node(a, **A1) followed by node(a, **A2) leaves node a with the
\* attributes of the one call node(a, **A), A being A1 updated by A2: the
\* later value of a name replaces the earlier, and None removes the
\* attribute if it is there and does nothing otherwise
C5_NodeMerge == [][C5_Step]_vars

\* node(a, color=blue, shape=box) then node(a, shape=None, color=red)
C5_Witness ==
    /\ last.op = "node" /\ last.err = ""
    /\ last.args[1] = StrV("a")
    /\ last.args[2] = Attr("shape", None) \o Attr("color", StrV("red"))
    /\ calls = MaxNodeCalls - 2
    /\ dict_get(dots[1].nodemap, StrV("a")) = Red

(***************************************************************************)
(* Themes: Dot 1 has a node, an edge and graph attributes that use the     *)
(* role r, Dot 3 defines r; Dot 1 uses Dot 2 or Dot 3 as its theme and     *)
(* Dot 2 uses Dot 3.  The application changes the heritable attributes of  *)
(* the three Dots and the theme links, and serializes Dots 1 and 2.        *)
(***************************************************************************)
MaxThemeCalls == 3

RoleR == Attr("role", StrV("r"))

\* what the Dot d assigns in the calls of NextTheme
Own(d) ==
    CASE d = 1 -> Attr("color", StrV("red"))
      [] d = 2 -> Attr("color", StrV("green")) \o Attr("shape", StrV("oval"))
      [] d = 3 -> Attr("shape", StrV("box")) \o Attr("color", StrV("blue"))
                  \o Attr("style", StrV("bold"))

UsesR(D) ==
    Block_graph(
        Block_edge(
            Block_node(D, 1, StrV("n"), RoleR).dot,
            1, StrV("n"), StrV("m"), None, RoleR, 0).dot,
        1, RoleR).dot

DefinesR(D) == Dot_all_role(D, StrV("r"), Attr("style", StrV("dotted"))).dot

InitTheme ==
    /\ \E t \in 2..3 :
          dots = Dot_use_theme(
                    Dot_use_theme(
                       <<UsesR(Dot_init(FALSE, FALSE, FALSE, None)),
                         Dot_init(FALSE, FALSE, FALSE, None),
                         DefinesR(Dot_init(FALSE, FALSE, FALSE, None))>>,
                       2, DotRef(3)).dots,
                    1, DotRef(t)).dots
    /\ addr = <<1, 2>>
    /\ ndisc = 0
    /\ calls = MaxThemeCalls
    /\ last = NoCall
    /\ out = <<NoCall, NoCall, NoCall>>

NextTheme ==
    \/ \E d \in 1..2 : str(d)
    \/ use_theme(1, None)
    \/ \E d \in 1..2 : use_theme(d, DotRef(3))
    \/ use_theme(2, None)
    \/ \E d \in 1..3 : node_default(d, 1, Own(d))
    \/ \E d \in 2..3 : all_default(d, 1, Own(d))
    \/ \E d \in {1, 3} : graph(d, 1, Own(d))
    \/ \E d \in 2..3 : all_role(d, StrV("r"), Own(d))
    \/ node_role(1, StrV("r"), Own(1))

SpecTheme == InitTheme /\ [][NextTheme]_vars

\* the Dots d, its theme, the theme of that theme, and so on
RECURSIVE ThemeChain(_, _, _)
ThemeChain(ds, d, fuel) ==
    IF d = 0 \/ fuel = 0 THEN <<>>
    ELSE <<d>> \o ThemeChain(ds, ds[d].theme, fuel - 1)

\* the value of the attribute name in the nearest Dot of the chain whose
\* attributes Get(D) have it
Nearest(ds, chain, Get(_), name) ==
    dict_get(Get(ds[chain[CHOOSE i \in 1..Len(chain) :
                             /\ dict_has(Get(ds[chain[i]]), name)
                             /\ \A j \in 1..(i - 1) :
                                   ~dict_has(Get(ds[chain[j]]), name)]]),
             name)

\* the attributes Get(D) merged over the chain, the nearest Dot winning
NearestMap(ds, chain, Get(_)) ==
    {<<n, Nearest(ds, chain, Get, n)>> :
        n \in UNION {dict_keys(Get(ds[chain[i]])) : i \in 1..Len(chain)}}

RoleAttrs(roles, role) ==
    IF dict_has(roles, role) THEN dict_get(roles, role) ELSE <<>>

\* own attributes name a role that no Dot of the chain defines in Roles(D)
RoleMissing(ds, chain, own, Roles(_)) ==
    \E p \in own :
        /\ p[1] = "role"
        /\ \A i \in 1..Len(chain) : ~dict_has(Roles(ds[chain[i]]), p[2])

\* own attributes, with the attributes of the role they name filled in
\* where own has no value; the role's attributes are merged over the chain,
\* the nearest Dot winning for each attribute name
WithRole(ds, chain, own, Roles(_)) ==
    {p \in own : p[1] # "role"}
    \cup UNION {
          {q \in NearestMap(ds, chain, LAMBDA D : RoleAttrs(Roles(D), p[2])) :
              \A o \in own : o[1] # q[1]} :
          p \in {o \in own : o[1] = "role"}}

\* str.split(sep) for a separator of one character
RECURSIVE str_split(_, _)
str_split(s, sep) ==
    IF str_find(s, sep, 1) = 0 THEN <<s>>
    ELSE <<SubSeq(s, 1, str_find(s, sep, 1) - 1)>>
         \o str_split(SubSeq(s, str_find(s, sep, 1) + 1, Len(s)), sep)

\* "name=value" as a pair
ParsePiece(piece) ==
    <<SubSeq(piece, 1, str_find(piece, "=", 1) - 1),
      StrV(SubSeq(piece, str_find(piece, "=", 1) + 1, Len(piece)))>>

\* the attribute list "[name=value ...]" that ends the statement s, as a
\* mapping; empty when s has no list
ParseList(s) ==
    IF str_find(s, "[", 1) = 0 THEN {}
    ELSE {ParsePiece(str_split(SubSeq(s, str_find(s, "[", 1) + 1,
                                      Len(s) - 1), " ")[i]) :
             i \in 1..Len(str_split(SubSeq(s, str_find(s, "[", 1) + 1,
                                           Len(s) - 1), " "))}

\* the top-level statements of the output lines that begin with head and
\* go on with an attribute list or end there
Statements(lines, head) ==
    {i \in 1..Len(lines) :
        \/ lines[i].s = "    " \o head
        \/ /\ Len(lines[i].s) >= Len(head) + 6
           /\ SubSeq(lines[i].s, 1, Len(head) + 6) = "    " \o head \o " ["}

\* the output has one statement head with the attributes expected, or
\* none when optional and nothing is expected
States(lines, head, expected, optional) ==
    IF optional /\ expected = {} THEN Statements(lines, head) = {}
    ELSE /\ Cardinality(Statements(lines, head)) = 1
         /\ \A i \in Statements(lines, head) :
               ParseList(lines[i].s) = expected

\* the top-level statements "name=value" of the output, as a mapping
GraphAttrLines(lines) ==
    {ParsePiece(SubSeq(lines[i].s, 5, Len(lines[i].s))) :
        i \in {j \in 1..Len(lines) :
                  /\ LeadingSpaces(lines[j].s) = 4
                  /\ str_find(lines[j].s, "=", 1) > 0
                  /\ str_find(lines[j].s, "[", 1) = 0}}

D_grapha(D) == D.blocks[1].d_grapha

D_nodea(D) == D.blocks[1].d_nodea

D_edgea(D) == D.blocks[1].d_edgea

Grapha(D) == D.blocks[1].grapha

Graphroles(D) == D.graphroles

Noderoles(D) == D.noderoles

Edgeroles(D) == D.edgeroles

\* the serialization r of Dot d of the heap ds shows, for the defaults, the
\* graph attributes and the roles used by the graph, the nodes and the
\* edges of d, the values of the nearest Dot of d's theme chain; it is an
\* error when a role used is defined nowhere in the chain
Reflects(ds, d, r, chain) ==
    IF \/ RoleMissing(ds, chain, NearestMap(ds, chain, Grapha), Graphroles)
       \/ \E i \in 1..Len(ds[d].nodemap) :
             RoleMissing(ds, chain, AsMap(ds[d].nodemap[i].v), Noderoles)
       \/ \E e \in 1..Len(ds[d].edgeobjs) :
             RoleMissing(ds, chain, AsMap(ds[d].edgeobjs[e].attrs), Edgeroles)
    THEN r.err = "RuntimeError"
    ELSE /\ r.err = ""
         /\ States(r.lines, "graph", NearestMap(ds, chain, D_grapha), TRUE)
         /\ States(r.lines, "node", NearestMap(ds, chain, D_nodea), TRUE)
         /\ States(r.lines, "edge", NearestMap(ds, chain, D_edgea), TRUE)
         /\ GraphAttrLines(r.lines)
               = WithRole(ds, chain, NearestMap(ds, chain, Grapha), Graphroles)
         /\ \A i \in 1..Len(ds[d].nodemap) :
               States(r.lines, ds[d].nodemap[i].k.s,
                      WithRole(ds, chain, AsMap(ds[d].nodemap[i].v),
                               Noderoles), FALSE)
         /\ \A e \in 1..Len(ds[d].edgeobjs) :
               States(r.lines, PlainEdgeText([ds[d].edgeobjs[e] EXCEPT
                                                 !.attrs = <<>>], 0),
                      WithRole(ds, chain, AsMap(ds[d].edgeobjs[e].attrs),
                               Edgeroles), FALSE)

C6_Step ==
    last'.op = "str" =>
        Reflects(dots, last'.d, out'[last'.d],
                 ThemeChain(dots, last'.d, Len(dots)))

\* C6: what a serialization shows of the default graph, node and edge
\* attributes, the graph attributes and the role attributes is the merge
\* over the theme chain of the Dot in which, for every attribute name (and
\* for a role: every role name and attribute name), the nearest Dot that
\* assigns it wins: the Dot itself, then its theme, then that theme's theme
C6_NearestWins == [][C6_Step]_vars

\* Dot 1 and a theme of its chain both assign the default node color, and
\* the serialization of Dot 1 shows the color of Dot 1 next to the shape
\* and style it inherits
C6_Witness ==
    /\ last.op = "str" /\ last.d = 1 /\ last.err = ""
    /\ dots[1].theme # 0
    /\ D_nodea(dots[1]) = Own(1)
    /\ D_nodea(dots[3]) = Own(3)
    /\ \E i \in 1..Len(out[1].lines) :
          out[1].lines[i].s = "    node [shape=box color=red style=bold]"

C7_Step ==
    (last'.op = "str" /\ out[last'.d].op = "str") =>
        /\ Reflects(dots, last'.d, out'[last'.d],
                    ThemeChain(dots, last'.d, Len(dots)))
        /\ ~Reflects(dots, last'.d, out[last'.d],
                     ThemeChain(dots, last'.d, Len(dots)))
              => out'[last'.d].lines # out[last'.d].lines
                    \/ out'[last'.d].err # out[last'.d].err

\* C7: nothing of a theme is kept from one serialization to the next: a
\* serialization of a Dot that was serialized before shows the heritable
\* attributes and the theme links as they are now, in every Dot of its
\* chain, and so differs from the earlier one when that no longer fits
C7_NoCaching == [][C7_Step]_vars

\* Dot 1 was serialized, then Dot 3 of its chain was given default node
\* attributes, and the next serialization of Dot 1 shows them
C7_Witness ==
    /\ last.op = "str" /\ last.d = 1 /\ last.err = ""
    /\ calls = MaxThemeCalls - 3
    /\ out[1].prev # <<>>
    /\ out[1].prev # out[1].lines
    /\ D_nodea(dots[1]) = <<>>
    /\ D_nodea(dots[3]) = Own(3)
    /\ \E i \in 1..Len(out[1].lines) :
          out[1].lines[i].s = "    node [shape=box color=blue style=bold]"

(***************************************************************************)
(* Theme links: starting with two Dots, the application creates Dots,      *)
(* copies Dots and makes use_theme calls with every Dot, None and a Block  *)
(* that is not a Dot as the theme.                                         *)
(***************************************************************************)
MaxChainCalls == 4

InitChain ==
    /\ dots = <<Dot_init(FALSE, FALSE, FALSE, None),
                Dot_init(TRUE, FALSE, FALSE, None)>>
    /\ addr = <<1, 2>>
    /\ ndisc = 0
    /\ calls = MaxChainCalls
    /\ last = NoCall
    /\ out = NoCall

NextChain ==
    \/ Dot(FALSE, FALSE, FALSE, None)
    \/ \E d \in 1..Len(dots) : copy(d, None, None)
    \/ \E d \in 1..Len(dots), t \in 1..Len(dots) : use_theme(d, DotRef(t))
    \/ \E d \in 1..Len(dots) : use_theme(d, None)
    \/ use_theme(1, BlockRef)

SpecChain == InitChain /\ [][NextChain]_vars

\* Dot target is met on the walk from Dot from along the theme links of
\* ds, within fuel steps
RECURSIVE OnChain(_, _, _, _)
OnChain(ds, from, target, fuel) ==
    /\ from # 0
    /\ fuel > 0
    /\ \/ from = target
       \/ OnChain(ds, ds[from].theme, target, fuel - 1)

\* the walk from Dot from along the theme links ends within fuel steps
RECURSIVE WalkEnds(_, _, _)
WalkEnds(ds, from, fuel) ==
    \/ from = 0
    \/ fuel > 0 /\ WalkEnds(ds, ds[from].theme, fuel - 1)

ThemeLinks(ds) == [d \in 1..Len(ds) |-> ds[d].theme]

\* no Dot is its own theme or on the chain of its theme, and the walk
\* along the chain of every Dot ends
C8_Inv ==
    \A d \in 1..Len(dots) :
        /\ ~OnChain(dots, dots[d].theme, d, Len(dots))
        /\ WalkEnds(dots, d, Len(dots))

\* A.use_theme(B) in the heap ds: it raises ValueError and changes no link
\* when B is A or A is on the chain of B, and links A to B otherwise
C8_Effect(ds, ds2, A, B, err) ==
    IF B = A \/ OnChain(ds, ds[B].theme, A, Len(ds))
    THEN err = "ValueError" /\ ThemeLinks(ds2) = ThemeLinks(ds)
    ELSE err = "" /\ ThemeLinks(ds2) = [ThemeLinks(ds) EXCEPT ![A] = B]

C8_Step ==
    (last'.op = "use_theme" /\ last'.args[1].t = "dot") =>
        C8_Effect(dots, dots', last'.d, last'.args[1].d, last'.err)

\* C8: A.use_theme(B) raises when B is A or the theme chain of B holds A,
\* and then changes no theme link; so after any Dot(), use_theme and copy
\* calls no Dot is reachable from itself through theme links and every
\* walk along a theme chain ends
C8_NoThemeCycle == []C8_Inv /\ [][C8_Step]_vars

\* with a chain of three Dots in place, the last Dot of the chain was
\* refused the first as its theme
C8_Witness ==
    /\ last.op = "use_theme" /\ last.err = "ValueError"
    /\ Len(dots) >= 3
    /\ last.args[1].t = "dot"
    /\ dots[last.args[1].d].theme # 0
    /\ dots[last.args[1].d].theme # last.d
    /\ dots[dots[last.args[1].d].theme].theme = last.d
    /\ dots[last.d].theme = 0

(***************************************************************************)
(* Nonces: Dot 1 has a subgraph and uses Dot 2 as its theme.  M1, M2 and   *)
(* M3 are Nonces with the default prefix; the application uses them and    *)
(* the literal ids _nonce_1 and _nonce_2 as node ids, edge endpoints, port *)
(* names, subgraph and graph ids and attribute values, in Dot 1 and in its *)
(* theme, and serializes Dot 1.                                            *)
(***************************************************************************)
MaxNonceCalls == 3

M1 == Nonce(1, "_nonce")

M2 == Nonce(2, "_nonce")

M3 == Nonce(3, "_nonce")

L1 == StrV("_nonce_1")

L2 == StrV("_nonce_2")

InitNonce ==
    /\ \E gid \in {None, M3} :
          dots = Dot_use_theme(
                    <<WithSubgraph(Dot_init(TRUE, FALSE, FALSE, gid)),
                      Dot_init(TRUE, FALSE, FALSE, None)>>,
                    1, DotRef(2)).dots
    /\ addr = <<1, 2, 3>>
    /\ ndisc = 0
    /\ calls = MaxNonceCalls
    /\ last = NoCall
    /\ out = <<NoCall, NoCall>>

NextNonce ==
    \/ str(1)
    \/ \E id \in {M1, M2, L1, L2}, a \in {<<>>, Attr("a", M2)} :
          node(1, 1, id, a)
    \/ \E id \in {M1, L1} : node(1, 2, id, Attr("a", M1))
    \/ \E q \in {M2, L1, Port(StrV("x"), M1, None), Port(M2, L2, None)} :
          edge(1, 1, M1, q, None, <<>>)
    \/ subgraph(1, 1, M2)
    \/ \E d \in 1..2, v \in {L1, StrV("x")} : node_default(d, 1, Attr("a", v))
    \/ node(2, 1, L1, <<>>)

SpecNonce == InitNonce /\ [][NextNonce]_vars

\* the words of a line of output
Words(line) ==
    str_split(SubSeq(line.s, LeadingSpaces(line.s) + 1, Len(line.s)), " ")

\* the text the attribute list of the line gives the attribute name
ListedValue(line, name) ==
    (CHOOSE p \in ParseList(line.s) : p[1] = name)[2].s

\* a port "node[:name]" of an edge statement, part by part with the ids
\* of the port
PortOccurrences(normport, word) ==
    {<<normport.node, str_split(word, ":")[1]>>}
        \cup (IF IsNone(normport.name) THEN {}
              ELSE {<<normport.name, str_split(word, ":")[2]>>})

\* the ids of D that the line of output shows, each with the text shown
LineOccurrences(D, line) ==
    CASE line.kind \in {"header", "subgraph"} ->
            IF IsNone(D.blocks[line.b].graphid) THEN {}
            ELSE {<<D.blocks[line.b].graphid, Words(line)[2]>>}
      [] line.kind = "node" ->
            {<<line.key, Words(line)[1]>>}
                \cup {<<dict_get(D.nodemap, line.key)[i].v,
                        ListedValue(line, dict_get(D.nodemap, line.key)[i].k)>> :
                         i \in 1..Len(dict_get(D.nodemap, line.key))}
      [] line.kind = "edge" ->
            PortOccurrences(D.edgeobjs[line.e].normport1, Words(line)[1])
                \cup PortOccurrences(D.edgeobjs[line.e].normport2,
                                     Words(line)[3])
                \cup {<<D.edgeobjs[line.e].attrs[i].v,
                        ListedValue(line, D.edgeobjs[line.e].attrs[i].k)>> :
                         i \in 1..Len(D.edgeobjs[line.e].attrs)}
      [] OTHER -> {}

Occurrences(D, lines) ==
    UNION {LineOccurrences(D, lines[i]) : i \in 1..Len(lines)}

\* every id the application gave the Dot D, anywhere
IdsOf(D) ==
    UNION {{D.blocks[b].graphid}
               \cup dict_values(D.blocks[b].d_grapha)
               \cup dict_values(D.blocks[b].d_nodea)
               \cup dict_values(D.blocks[b].d_edgea)
               \cup dict_values(D.blocks[b].grapha) : b \in 1..Len(D.blocks)}
        \cup UNION {UNION {dict_values(roles[i].v) : i \in 1..Len(roles)} :
                       roles \in {D.graphroles, D.noderoles, D.edgeroles}}
        \cup UNION {{D.nodemap[i].k} \cup dict_values(D.nodemap[i].v) :
                       i \in 1..Len(D.nodemap)}
        \cup UNION {{D.edgeobjs[e].normport1.node, D.edgeobjs[e].normport1.name,
                     D.edgeobjs[e].normport2.node, D.edgeobjs[e].normport2.name}
                    \cup dict_values(D.edgeobjs[e].attrs) :
                       e \in 1..Len(D.edgeobjs)}

\* the texts of the literal string ids of the Dot d and of its theme chain
LiteralTexts(ds, d) ==
    {v.s : v \in {w \in UNION {IdsOf(ds[ThemeChain(ds, d, Len(ds))[i]]) :
                                  i \in 1..Len(ThemeChain(ds, d, Len(ds)))} :
                     IsText(w)}}

C9_Step ==
    (last'.op = "str" /\ last'.err = "") =>
        \A p \in Occurrences(dots[last'.d], out'[last'.d].lines) :
            IsNonce(p[1]) => p[2] \notin LiteralTexts(dots, last'.d)

\* C9: a serialization resolves no Nonce to the text of a literal string
\* id that is anywhere in the Dot or in a Dot of its theme chain (graph,
\* subgraph or node id, edge endpoint or port name, attribute value),
\* whichever of the two the serialization meets first
C9_AvoidsLiterals == [][C9_Step]_vars

C10_Step ==
    (last'.op = "str" /\ last'.err = "") =>
        \A p, q \in Occurrences(dots[last'.d], out'[last'.d].lines) :
            (IsNonce(p[1]) /\ IsNonce(q[1])) =>
                ((p[1] = q[1]) <=> (p[2] = q[2]))

\* C10: in a serialization, two occurrences of Nonces have the same text
\* exactly when they are occurrences of the same Nonce, for Nonces of one
\* prefix too
C10_SameIdIffSameNonce == [][C10_Step]_vars

\* Dot 1 was serialized with M1 as a node id and an edge endpoint and M2,
\* of the same prefix, as the other endpoint and an attribute value
C10_Witness ==
    /\ last.op = "str" /\ last.d = 1 /\ last.err = ""
    /\ dict_has(dots[1].nodemap, M1)
    /\ dict_get(dots[1].nodemap, M1) = Attr("a", M2)
    /\ \E e \in 1..Len(dots[1].edgeobjs) :
          /\ dots[1].edgeobjs[e].normport1.node = M1
          /\ dots[1].edgeobjs[e].normport2.node = M2
    /\ \E i, j \in 1..Len(out[1].lines) :
          /\ out[1].lines[i].s = "    _nonce_1 [a=_nonce_2]"
          /\ out[1].lines[j].s = "    _nonce_1 -> _nonce_2"

\* the values of the role attributes Roles(D) of the Dots of the chain as
\* merged, the nearest Dot winning for each attribute of each role
MergedRoleValues(ds, chain, Roles(_)) ==
    UNION {UNION {
        {p[2] : p \in NearestMap(ds, chain,
                          LAMBDA D : RoleAttrs(Roles(D), role))} :
        role \in dict_keys(Roles(ds[chain[i]]))} :
        i \in 1..Len(chain)}

\* the values of the heritable attributes of the Dots of the chain as
\* merged, the nearest Dot winning for each attribute
MergedValues(ds, chain) ==
    {p[2] : p \in NearestMap(ds, chain, D_grapha)
                  \cup NearestMap(ds, chain, D_nodea)
                  \cup NearestMap(ds, chain, D_edgea)
                  \cup NearestMap(ds, chain, Grapha)}
        \cup MergedRoleValues(ds, chain, Graphroles)
        \cup MergedRoleValues(ds, chain, Noderoles)
        \cup MergedRoleValues(ds, chain, Edgeroles)

\* the avoid set of a serialization of Dot d: the texts of the literal ids
\* of the Dot and of the merged heritable attributes
AvoidSet(ds, d) ==
    {v.s : v \in {w \in IdsOf(ds[d])
                        \cup MergedValues(ds, ThemeChain(ds, d, Len(ds))) :
                     IsText(w)}}

\* the ids a port of an edge statement shows, left to right
PortSeq(normport) ==
    <<normport.node>> \o (IF IsNone(normport.name) THEN <<>>
                          ELSE <<normport.name>>)

\* the ids of D that the line of output shows, left to right
LineIds(D, line) ==
    CASE line.kind \in {"header", "subgraph"} ->
            IF IsNone(D.blocks[line.b].graphid) THEN <<>>
            ELSE <<D.blocks[line.b].graphid>>
      [] line.kind = "node" ->
            <<line.key>>
                \o [i \in 1..Len(dict_get(D.nodemap, line.key)) |->
                       dict_get(D.nodemap, line.key)[i].v]
      [] line.kind = "edge" ->
            PortSeq(D.edgeobjs[line.e].normport1)
                \o PortSeq(D.edgeobjs[line.e].normport2)
                \o [i \in 1..Len(D.edgeobjs[line.e].attrs) |->
                       D.edgeobjs[line.e].attrs[i].v]
      [] OTHER -> <<>>

\* the ids of D that the output shows, in the order of the text
RECURSIVE OutputIds(_, _, _)
OutputIds(D, lines, i) ==
    IF i > Len(lines) THEN <<>>
    ELSE LineIds(D, lines[i]) \o OutputIds(D, lines, i + 1)

\* the position of the first occurrence of the id in the sequence
FirstAt(ids, id) ==
    CHOOSE i \in 1..Len(ids) :
        ids[i] = id /\ \A j \in 1..(i - 1) : ids[j] # id

\* the number N of the text prefix_N, 0 when the text is not of that form
\* with N at most max
NumberOf(text, prefix, max) ==
    IF \E n \in 1..max : text = prefix \o "_" \o ToString(n)
    THEN CHOOSE n \in 1..max : text = prefix \o "_" \o ToString(n)
    ELSE 0

\* the text the output gives the Nonce
TextOf(occ, nonce) == (CHOOSE p \in occ : p[1] = nonce)[2]

\* in the output lines of a serialization of Dot d, every Nonce has the
\* text prefix_N with the least N whose text is neither in the avoid set
\* nor the text of a Nonce that the output shows earlier
SmallestFree(ds, d, lines) ==
    LET occ    == Occurrences(ds[d], lines)
        ids    == OutputIds(ds[d], lines, 1)
        nonces == {p[1] : p \in {q \in occ : IsNonce(q[1])}}
        max    == Cardinality(occ) + 1
        N(m)   == NumberOf(TextOf(occ, m), m.prefix, max)
    IN  \A m \in nonces :
           /\ N(m) >= 1
           /\ TextOf(occ, m) \notin AvoidSet(ds, d)
           /\ \A m2 \in nonces :
                 (m2 # m /\ FirstAt(ids, m2) < FirstAt(ids, m))
                     => TextOf(occ, m2) # TextOf(occ, m)
           /\ \A k \in 1..(N(m) - 1) :
                 \/ m.prefix \o "_" \o ToString(k) \in AvoidSet(ds, d)
                 \/ \E m2 \in nonces :
                       /\ FirstAt(ids, m2) < FirstAt(ids, m)
                       /\ TextOf(occ, m2) = m.prefix \o "_" \o ToString(k)

C11_Step ==
    (last'.op = "str" /\ last'.err = "") =>
        SmallestFree(dots, last'.d, out'[last'.d].lines)

\* C11: in every serialization, whatever earlier ones gave, a Nonce of
\* prefix p is written p_N with N the smallest positive integer such that
\* p_N is no literal id of the avoid set and not the text of a Nonce
\* resolved earlier in that serialization
C11_SmallestFree == [][C11_Step]_vars

\* Dot 1 has the literal node _nonce_1 and the Nonce node M1, and its
\* serialization writes M1 as _nonce_2
C11_Witness ==
    /\ last.op = "str" /\ last.d = 1 /\ last.err = ""
    /\ IsNone(dots[1].blocks[1].graphid)
    /\ dots[1].blocks[1].nodes = <<L1, M1>>
    /\ \E i \in 1..Len(out[1].lines) :
          out[1].lines[i].kind = "node" /\ out[1].lines[i].key = M1
              /\ out[1].lines[i].s = "    _nonce_2"

\* the Dot d and the Dots of its theme chain, as they are
ChainDots(ds, d) ==
    [i \in 1..Len(ThemeChain(ds, d, Len(ds))) |->
        ds[ThemeChain(ds, d, Len(ds))[i]]]

\* the Dot serialized in this step was serialized before, and it and the
\* Dots of its theme chain are as they were then
IsRepeatedStr ==
    /\ last'.op = "str"
    /\ out[last'.d].op = "str"
    /\ out[last'.d].seen = ChainDots(dots, last'.d)

C12_Step ==
    IsRepeatedStr =>
        /\ out'[last'.d].err = out[last'.d].err
        /\ out'[last'.d].lines = out[last'.d].lines
        /\ str_join("\n", [i \in 1..Len(out'[last'.d].lines) |->
                              out'[last'.d].lines[i].s])
              = str_join("\n", [i \in 1..Len(out[last'.d].lines) |->
                                   out[last'.d].lines[i].s])

MaxRoleCalls == 4

RoleRRed == RoleR \o Attr("color", StrV("red"))

BlueBox == Attr("color", StrV("blue")) \o Attr("shape", StrV("box"))

InitRole ==
    /\ dots = Dot_use_theme(
                 <<WithSubgraph(Dot_init(FALSE, FALSE, FALSE, None)),
                   Dot_init(FALSE, FALSE, FALSE, None)>>,
                 1, DotRef(2)).dots
    /\ addr = <<1, 2>>
    /\ ndisc = 0
    /\ calls = MaxRoleCalls
    /\ last = NoCall
    /\ out = <<NoCall, NoCall>>

NextRole ==
    \/ str(1)
    \/ \E a \in {RoleR, RoleRRed} : node(1, 1, StrV("n"), a)
    \/ edge(1, 2, StrV("n"), StrV("m"), None, RoleRRed)
    \/ \E b \in 1..2 : graph(1, b, RoleRRed)
    \/ \E d \in 1..2, a \in {<<>>, BlueBox} : all_role(d, StrV("r"), a)
    \/ node_role(1, StrV("r"), Attr("style", StrV("bold")))
    \/ edge_role(1, StrV("r"), Attr("style", StrV("bold")))
    \/ graph_role(2, StrV("r"), Attr("style", StrV("bold")))

SpecRole == InitRole /\ [][NextRole]_vars

\* the graph attribute statements "name=value" of Block b in the output
\* lines, as a mapping
BlockAttrLines(lines, b) ==
    {ParsePiece(SubSeq(lines[i].s, LeadingSpaces(lines[i].s) + 1,
                       Len(lines[i].s))) :
        i \in {j \in 1..Len(lines) :
                  lines[j].kind = "graph_attr" /\ lines[j].b = b}}

\* the graph attributes of Block b of Dot d before roles: those merged over
\* the chain for the Dot, its own for a subgraph
BlockGrapha(ds, d, b, chain) ==
    IF b = 1 THEN NearestMap(ds, chain, Grapha)
    ELSE AsMap(ds[d].blocks[b].grapha)

\* the output lines of a serialization of Dot d give every graph and
\* subgraph, node and edge its explicit attributes and, where it has none
\* of that name, the attributes of its role, and never the attribute role
RolesIntegrated(ds, d, lines, chain) ==
    /\ \A b \in 1..Len(ds[d].blocks) :
          BlockAttrLines(lines, b)
             = WithRole(ds, chain, BlockGrapha(ds, d, b, chain), Graphroles)
    /\ \A i \in 1..Len(ds[d].nodemap) :
          \E j \in 1..Len(lines) :
             /\ lines[j].kind = "node" /\ lines[j].key = ds[d].nodemap[i].k
             /\ ParseList(lines[j].s)
                   = WithRole(ds, chain, AsMap(ds[d].nodemap[i].v), Noderoles)
    /\ \A e \in 1..Len(ds[d].edgeobjs) :
          \E j \in 1..Len(lines) :
             /\ lines[j].kind = "edge" /\ lines[j].e = e
             /\ ParseList(lines[j].s)
                   = WithRole(ds, chain, AsMap(ds[d].edgeobjs[e].attrs),
                              Edgeroles)
    /\ \A j \in 1..Len(lines) : str_find(lines[j].s, "role=", 1) = 0

C13_Step ==
    (last'.op = "str" /\ last'.err = "") =>
        RolesIntegrated(dots, last'.d, out'[last'.d].lines,
                        ThemeChain(dots, last'.d, Len(dots)))

\* C13: a graph, subgraph, node or edge with role=r, r being defined for
\* its kind, is written with its explicit attributes and with every
\* attribute of r it does not set itself; the attribute role is not written
C13_RoleIntegrated == [][C13_Step]_vars

\* node n has role r and the color red, r gives nodes the color blue and
\* the shape box, and the serialization writes n red and box
C13_Witness ==
    /\ last.op = "str" /\ last.d = 1 /\ last.err = ""
    /\ dict_has(dots[1].nodemap, StrV("n"))
    /\ dict_get(dots[1].nodemap, StrV("n")) = RoleRRed
    /\ RoleAttrs(dots[1].noderoles, StrV("r")) = BlueBox
    /\ \E j \in 1..Len(out[1].lines) :
          out[1].lines[j].s = "    n [color=red shape=box]"

\* some graph, subgraph, node or edge of Dot d has a role that no Dot of
\* the chain defines for its kind
UsesUndefinedRole(ds, d, chain) ==
    \/ \E b \in 1..Len(ds[d].blocks) :
          RoleMissing(ds, chain, BlockGrapha(ds, d, b, chain), Graphroles)
    \/ \E i \in 1..Len(ds[d].nodemap) :
          RoleMissing(ds, chain, AsMap(ds[d].nodemap[i].v), Noderoles)
    \/ \E e \in 1..Len(ds[d].edgeobjs) :
          RoleMissing(ds, chain, AsMap(ds[d].edgeobjs[e].attrs), Edgeroles)

\* the call of this step is a graph, node or edge call that assigns a role
AssignsRole ==
    /\ last'.op \in {"graph", "node", "edge"}
    /\ "role" \in Assigned(last'.args[Len(last'.args)])

C14_Step ==
    /\ AssignsRole => last'.err = ""
    /\ last'.op = "str" =>
          (last'.err = "RuntimeError"
              <=> UsesUndefinedRole(dots, last'.d,
                                    ThemeChain(dots, last'.d, Len(dots))))
    /\ last'.op = "str" => last'.err \in {"", "RuntimeError"}

\* C14: a graph, node or edge call that assigns role=r succeeds whether or
\* not r is defined; a serialization raises exactly when a role in use is
\* defined for its kind neither in the Dot nor in a Dot of its theme chain,
\* a definition without attributes counting as one
C14_UndefinedRoleAtStr == [][C14_Step]_vars

\* node n was given the role r while r was defined nowhere, then the theme
\* defined r without attributes, and the serialization of Dot 1 succeeded
C14_Witness ==
    /\ last.op = "str" /\ last.d = 1 /\ last.err = ""
    /\ calls = MaxRoleCalls - 3
    /\ dict_has(dots[1].nodemap, StrV("n"))
    /\ dict_get(dots[1].nodemap, StrV("n")) = RoleR
    /\ dots[1].noderoles = <<>>
    /\ dict_has(dots[2].noderoles, StrV("r"))
    /\ dict_get(dots[2].noderoles, StrV("r")) = <<>>
    /\ \E j \in 1..Len(out[1].lines) : out[1].lines[j].s = "    n"

(***************************************************************************)
(* Defining and amending: on a non-directed Dot, multigraph or not, the    *)
(* application makes the general, the strict-define and the strict-update  *)
(* calls for a node, for the edge between a and b (with and without a      *)
(* port, in either order) and for subgraphs of every Block.                *)
(***************************************************************************)
MaxStrictCalls == 3

PortB == Port(StrV("b"), StrV("p"), None)

PortBn == Port(StrV("b"), StrV("q"), StrV("n"))

InitStrict ==
    /\ \E multigraph \in BOOLEAN :
          dots = <<Dot_init(FALSE, FALSE, multigraph, None)>>
    /\ addr = <<1, 2>>
    /\ ndisc = 0
    /\ calls = MaxStrictCalls
    /\ last = NoCall
    /\ out = NoCall

NextStrict ==
    \/ \E a \in {Red, Blue} : node(1, 1, StrV("a"), a)
    \/ node_define(1, 1, StrV("a"), Blue)
    \/ node_update(1, 1, StrV("a"), Blue)
    \/ \E q \in {StrV("b"), PortB}, x \in {None, StrV("x")} :
          edge(1, 1, StrV("a"), q, x, Red)
    \/ edge_define(1, 1, PortBn, StrV("a"), None, Blue)
    \/ edge_update(1, 1, PortBn, StrV("a"), None, Blue)
    \/ \E b \in 1..Len(dots[1].blocks), id \in {None, StrV("s")} :
          subgraph(1, b, id)
    \/ \E b \in 1..Len(dots[1].blocks) : subgraph_define(1, b, StrV("s"))
    \/ \E b \in 1..Len(dots[1].blocks) : subgraph_update(1, b, StrV("s"))

SpecStrict == InitStrict /\ [][NextStrict]_vars

\* the entity a strict call names is defined in D: the node id is a node,
\* the endpoints (and, in a multigraph, the discriminant given) are those of
\* an edge, the id is that of a subgraph of the Block of the call
IsDefined(D, call) ==
    CASE call.op \in {"node_define", "node_update"} ->
            \E i \in 1..Len(D.nodemap) : D.nodemap[i].k = normalize(call.args[1])
      [] call.op \in {"edge_define", "edge_update"} ->
            \E e \in EdgesOfPair(D, CallPair(call)) :
               IF IsNone(call.args[3]) THEN ~D.multigraph
               ELSE D.edgeobjs[e].normdisc = normalize(call.args[3])
      [] call.op \in {"subgraph_define", "subgraph_update"} ->
            \E i \in 1..Len(D.blocks[call.b].subgraphs) :
               D.blocks[D.blocks[call.b].subgraphs[i]].graphid
                  = normalize(call.args[1])

StrictDefines == {"node_define", "edge_define", "subgraph_define"}

StrictUpdates == {"node_update", "edge_update", "subgraph_update"}

C15_Step ==
    /\ last'.op \in StrictDefines =>
          /\ last'.err = (IF IsDefined(dots[last'.d], last') THEN "RuntimeError"
                          ELSE "")
          /\ \/ IsDefined(dots'[last'.d], last')
             \/ last'.op = "edge_define" /\ dots[last'.d].multigraph
    /\ last'.op \in StrictUpdates =>
          /\ last'.err = (IF IsDefined(dots[last'.d], last') THEN ""
                          ELSE "RuntimeError")
          /\ IsDefined(dots'[last'.d], last') = IsDefined(dots[last'.d], last')
    /\ (last'.op \in StrictDefines \cup StrictUpdates /\ last'.err # "") =>
          dots' = dots

\* C15: node_define, edge_define and subgraph_define raise exactly when the
\* node, edge or subgraph is defined, node_update, edge_update and
\* subgraph_update exactly when it is not, and a strict call that raises
\* leaves the Dot as it was: no entity is defined, no attribute or port is
\* changed
C15_StrictCalls == [][C15_Step]_vars

\* the edge a -- b:p was defined with the color red, and edge_define for
\* the same pair, given another port and color, raised and left it so
C15_Witness ==
    /\ last.op = "edge_define" /\ last.err = "RuntimeError"
    /\ Len(dots[1].edgeobjs) = 1
    /\ dots[1].edgeobjs[1].attrs = Red
    /\ dots[1].edgeobjs[1].normport2.name = StrV("p")
    /\ IsNone(dots[1].edgeobjs[1].normport2.cp)

\* the call of this step is a node, edge or subgraph call, and the call
\* before it was the same call
IsRepeatedCall ==
    /\ last'.op \in {"node", "edge", "subgraph"}
    /\ last.op = last'.op /\ last.d = last'.d /\ last.b = last'.b
    /\ last.args = last'.args

\* the repeated call names its entity: it is not a subgraph call without
\* id and not an edge call without discriminant on a multigraph
NamesEntity ==
    /\ last'.op = "subgraph" => ~IsNone(last'.args[1])
    /\ last'.op = "edge" =>
          (dots[last'.d].multigraph => ~IsNone(last'.args[3]))

\* the step leaves the Dots and the text of the Dot of the call unchanged
SameModelAndText ==
    /\ dots' = dots
    /\ Dot_text(dots', last'.d) = Dot_text(dots, last'.d)

C16_OriginalStep == IsRepeatedCall => SameModelAndText

C16_Step == (IsRepeatedCall /\ NamesEntity) => SameModelAndText

ChildrenNamed(D, b, graphid) ==
    {c \in 2..Len(D.blocks) :
        D.blocks[c].parent = b /\ D.blocks[c].graphid = graphid}

\* Block c of D2 is a Block that D did not have, an empty subgraph of
\* Block b with the id, and D2 is D with that Block added to it
IsNewSubgraph(D, D2, b, c, graphid) ==
    /\ c = Len(D.blocks) + 1
    /\ Len(D2.blocks) = c
    /\ D2.blocks[c] = block_init(graphid, b)
    /\ D2.blocks[b].subgraphs = Append(D.blocks[b].subgraphs, c)
    /\ \A x \in 1..Len(D.blocks) :
          x # b => D2.blocks[x] = D.blocks[x]

\* every Block is listed once, by its parent, and no two subgraphs of one
\* Block have the same id
C17_Inv ==
    \A d \in 1..Len(dots) :
       \A c \in 2..Len(dots[d].blocks) :
          /\ Cardinality({i \in 1..Len(dots[d].blocks[dots[d].blocks[c].parent]
                                           .subgraphs) :
                             dots[d].blocks[dots[d].blocks[c].parent]
                                 .subgraphs[i] = c}) = 1
          /\ ~IsNone(dots[d].blocks[c].graphid) =>
                ChildrenNamed(dots[d], dots[d].blocks[c].parent,
                              dots[d].blocks[c].graphid) = {c}

C17_Step ==
    (last'.op = "subgraph" /\ last'.err = "") =>
        IF /\ ~IsNone(last'.args[1])
           /\ ChildrenNamed(dots[last'.d], last'.b,
                            normalize(last'.args[1])) # {}
        THEN /\ ChildrenNamed(dots[last'.d], last'.b,
                              normalize(last'.args[1])) = {last'.ret}
             /\ dots' = dots
        ELSE IsNewSubgraph(dots[last'.d], dots'[last'.d], last'.b, last'.ret,
                           IF IsNone(last'.args[1]) THEN None
                           ELSE normalize(last'.args[1]))

\* C17: subgraph(id) returns the subgraph of that id of the Block it is
\* called on when there is one, and changes nothing; otherwise, whatever
\* other Blocks (the Block itself too) have that id, and always when no id
\* is given, it returns a new Block, a subgraph of the Block it is called on
C17_SubgraphScoped == []C17_Inv /\ [][C17_Step]_vars

\* the Dot has the subgraph s, which has a subgraph s of its own, and a
\* further subgraph("s") call on the Dot returned the first
C17_Witness ==
    /\ last.op = "subgraph" /\ last.b = 1 /\ last.ret = 2
    /\ last.args = <<StrV("s")>>
    /\ Len(dots[1].blocks) = 3
    /\ dots[1].blocks[2].graphid = StrV("s") /\ dots[1].blocks[2].parent = 1
    /\ dots[1].blocks[3].graphid = StrV("s") /\ dots[1].blocks[3].parent = 2

(***************************************************************************)
(* Copies: a Dot with a subgraph and a node uses a theme; the application  *)
(* copies Dots, changes the original and the copies, also through their    *)
(* subgraph Blocks, changes the theme, and takes a Dot off the theme.      *)
(***************************************************************************)
MaxCopyCalls == 3

Box == Attr("shape", StrV("box"))

Oval == Attr("shape", StrV("oval"))

InitCopy ==
    /\ dots = Dot_use_theme(
                 <<Block_node(Block_subgraph(Dot_init(FALSE, FALSE, FALSE,
                                                      StrV("g")),
                                             1, StrV("s")).dot,
                              2, StrV("n"), Red).dot,
                   Dot_init(FALSE, FALSE, FALSE, None)>>,
                 1, DotRef(2)).dots
    /\ addr = <<1, 2>>
    /\ ndisc = 0
    /\ calls = MaxCopyCalls
    /\ last = NoCall
    /\ out = NoCall

NextCopy ==
    \/ \E d \in 1..Len(dots) \ {2}, id \in {None, StrV("c")} :
          copy(d, id, None)
    \/ \E d \in 1..Len(dots) \ {2}, b \in 1..2, a \in {Red, Blue} :
          node(d, b, StrV("n"), a)
    \/ \E d \in 1..Len(dots) \ {2} :
          edge(d, 2, StrV("n"), StrV("m"), None, Blue)
    \/ \E d \in 1..Len(dots) \ {2} : subgraph(d, 2, StrV("t"))
    \/ \E a \in {Box, Oval} : node_default(2, 1, a)
    \/ \E d \in 1..Len(dots) \ {2} : use_theme(d, None)

SpecCopy == InitCopy /\ [][NextCopy]_vars

\* the serializations a and b are equal, but for the header line when
\* the graph identifiers may differ
SameSerialization(a, b, sameid) ==
    /\ a.err = b.err
    /\ Len(a.lines) = Len(b.lines)
    /\ \A i \in 1..Len(a.lines) :
          \/ a.lines[i] = b.lines[i]
          \/ ~sameid /\ a.lines[i].kind = "header"
                     /\ b.lines[i].kind = "header"

\* the header line of the serialization a
HeaderOf(a) == a.lines[CHOOSE i \in 1..Len(a.lines) : a.lines[i].kind = "header"].s

\* a copy() call returns a Dot the heap did not have, a root, with the theme
\* link of the original and the serialization the original has then (under
\* the identifier given, if one is given); every Dot there was stays as it is
C18_CopyStep ==
    (last'.op = "copy" /\ last'.err = "") =>
        /\ Len(dots') = Len(dots) + 1
        /\ last'.ret = Len(dots')
        /\ \A e \in 1..Len(dots) : dots'[e] = dots[e]
        /\ dots'[last'.ret].blocks[1].parent = 0
        /\ dots'[last'.ret].theme = dots[last'.d].theme
        /\ SameSerialization(Dot_str(dots', last'.ret),
                             Dot_str(dots, last'.d), IsNone(last'.args[1]))
        /\ ~IsNone(last'.args[1]) =>
              HeaderOf(Dot_str(dots', last'.ret))
                 = "graph " \o normalize(last'.args[1]).s \o " {"

\* any other call changes the Dot it is made on and no other, and the
\* serialization of no Dot that does not have that Dot on its theme chain
C18_MutationStep ==
    (last'.op # "copy") =>
        /\ Len(dots') = Len(dots)
        /\ \A e \in 1..Len(dots) \ {last'.d} : dots'[e] = dots[e]
        /\ \A e \in 1..Len(dots) :
              (\A i \in 1..Len(ThemeChain(dots, e, Len(dots))) :
                  ThemeChain(dots, e, Len(dots))[i] # last'.d)
              => Dot_str(dots', e) = Dot_str(dots, e)

\* a node default set on a Dot shows in the serialization of every Dot that
\* has it on its theme chain and no node defaults nearer on the chain
C18_ThemeStep ==
    (last'.op = "node_default" /\ last'.err = "") =>
        \A e \in 1..Len(dots) :
            (/\ \E i \in 1..Len(ThemeChain(dots, e, Len(dots))) :
                   /\ ThemeChain(dots, e, Len(dots))[i] = last'.d
                   /\ \A j \in 1..(i - 1) :
                         dots[ThemeChain(dots, e, Len(dots))[j]]
                            .blocks[1].d_nodea = <<>>
             /\ Len(dots'[last'.d].blocks[1].d_nodea) = 1)
            => \E l \in 1..Len(Dot_str(dots', e).lines) :
                  /\ Dot_str(dots', e).lines[l].kind = "node_default"
                  /\ Dot_str(dots', e).lines[l].b = 1
                  /\ Dot_str(dots', e).lines[l].s
                        = "    node [" \o last'.args[1][1].k \o "="
                          \o last'.args[1][1].v.s \o "]"

C18_Step == C18_CopyStep /\ C18_MutationStep /\ C18_ThemeStep

MaxReservedCalls == 2

ReservedArgs ==
    {RoleR, Attr("role_", StrV("r")), Blue \o RoleR, Attr("role", None),
     Blue}

InitReserved ==
    /\ dots = <<WithSubgraph(Dot_init(FALSE, FALSE, FALSE, None))>>
    /\ addr = <<1, 2>>
    /\ ndisc = 0
    /\ calls = MaxReservedCalls
    /\ last = NoCall
    /\ out = NoCall

NextReserved ==
    \/ \E b \in 1..2, a \in ReservedArgs : graph_default(1, b, a)
    \/ \E b \in 1..2, a \in ReservedArgs : node_default(1, b, a)
    \/ \E b \in 1..2, a \in ReservedArgs : edge_default(1, b, a)
    \/ \E b \in 1..2, a \in ReservedArgs : all_default(1, b, a)
    \/ \E a \in ReservedArgs : graph_role(1, StrV("x"), a)
    \/ \E a \in ReservedArgs : node_role(1, StrV("x"), a)
    \/ \E a \in ReservedArgs : edge_role(1, StrV("x"), a)
    \/ \E a \in ReservedArgs : all_role(1, StrV("x"), a)
    \/ \E b \in 1..2, a \in ReservedArgs : graph(1, b, a)
    \/ \E b \in 1..2, a \in ReservedArgs : node(1, b, StrV("n"), a)
    \/ \E b \in 1..2, a \in ReservedArgs :
          edge(1, b, StrV("n"), StrV("m"), None, a)

SpecReserved == InitReserved /\ [][NextReserved]_vars

DefaultCalls == {"graph_default", "node_default", "edge_default", "all_default"}

RoleCalls == {"graph_role", "node_role", "edge_role", "all_role"}

\* the keyword arguments of the call
KeywordArgs(call) ==
    CASE call.op \in DefaultCalls \cup {"graph"} -> call.args[1]
      [] call.op \in RoleCalls \cup {"node"}     -> call.args[2]
      [] call.op = "edge"                         -> call.args[4]

\* the keyword arguments name the attribute role, as role or as role_
NamesRole(attrs) == \E i \in 1..Len(attrs) : attrs[i].k \in {"role", "role_"}

\* the value the keyword arguments give the attribute role
RoleGiven(attrs) == attrs[CHOOSE i \in 1..Len(attrs) : attrs[i].k \in {"role", "role_"}].v

\* the attributes the graph, node or edge call is about, in the Dot D
AttrsOf(D, call) ==
    CASE call.op = "graph" -> D.blocks[call.b].grapha
      [] call.op = "node"  -> dict_get(D.nodemap, call.args[1])
      [] call.op = "edge"  -> D.edgeobjs[1].attrs

\* no default attributes and no role definition have an attribute role
C19_Inv ==
    \A d \in 1..Len(dots) :
        /\ \A b \in 1..Len(dots[d].blocks) :
              /\ ~dict_has(dots[d].blocks[b].d_grapha, "role")
              /\ ~dict_has(dots[d].blocks[b].d_nodea, "role")
              /\ ~dict_has(dots[d].blocks[b].d_edgea, "role")
        /\ \A roles \in {dots[d].graphroles, dots[d].noderoles,
                          dots[d].edgeroles} :
              \A i \in 1..Len(roles) : ~dict_has(roles[i].v, "role")

C19_Step ==
    /\ last'.op \in DefaultCalls \cup RoleCalls =>
          (last'.err = "ValueError") = NamesRole(KeywordArgs(last'))
    /\ last'.op \in {"graph", "node", "edge"} =>
          /\ last'.err = ""
          /\ NamesRole(KeywordArgs(last')) =>
                IF IsNone(RoleGiven(KeywordArgs(last')))
                THEN ~dict_has(AttrsOf(dots'[last'.d], last'), "role")
                ELSE /\ dict_has(AttrsOf(dots'[last'.d], last'), "role")
                     /\ dict_get(AttrsOf(dots'[last'.d], last'), "role")
                           = RoleGiven(KeywordArgs(last'))

\* C19: graph_default, node_default, edge_default, all_default, graph_role,
\* node_role, edge_role and all_role raise ValueError when a keyword argument
\* names the attribute role, and no default or role definition ever has it;
\* graph, node and edge take it and store it as an attribute
C19_RoleReserved == []C19_Inv /\ [][C19_Step]_vars

\* the node n was given the role r, and an edge_default call naming role was
\* then rejected
C19_Witness ==
    /\ last.op = "edge_default" /\ last.err = "ValueError"
    /\ last.args[1] = Blue \o RoleR
    /\ dict_has(dots[1].nodemap, StrV("n"))
    /\ dict_get(dots[1].nodemap, StrV("n")) = RoleR
    /\ dots[1].blocks[last.b].d_edgea = Blue

(***************************************************************************)
(* Ports of an amended edge: the application makes edge and edge_update    *)
(* calls for the nodes a and b, in either order, each endpoint given bare  *)
(* or as a Port.                                                           *)
(***************************************************************************)
MaxPortCalls == 2

PointArgs(n) ==
    {StrV(n), Port(StrV(n), StrV("p"), StrV("s")), Port(StrV(n), None, None),
     Port(StrV(n), StrV("q"), StrV("_"))}

InitPorts ==
    /\ \E directed \in BOOLEAN :
          dots = <<Dot_init(directed, FALSE, FALSE, None)>>
    /\ addr = <<1, 2>>
    /\ ndisc = 0
    /\ calls = MaxPortCalls
    /\ last = NoCall
    /\ out = NoCall

NextPorts ==
    \/ \E p \in PointArgs("a"), q \in PointArgs("b") :
          edge(1, 1, p, q, None, <<>>)
    \/ \E p \in PointArgs("a"), q \in PointArgs("b") :
          edge(1, 1, q, p, None, <<>>)
    \/ \E p \in {StrV("a"), Port(StrV("a"), StrV("q"), StrV("n"))} :
          edge_update(1, 1, StrV("b"), p, None, <<>>)

SpecPorts == InitPorts /\ [][NextPorts]_vars

\* the node an endpoint argument names
ArgNode(point) == normalize(IF point.t = "port" THEN point.node ELSE point)

\* the port name and compass point a Port argument gives
ArgSpec(point) == <<IF IsNone(point.name) THEN None ELSE normalize(point.name), IF point.cp = StrV("_") THEN None ELSE point.cp>>

\* the port name and compass point the edge ed holds for its endpoint n
StoredSpec(ed, n) ==
    IF ed.normport1.node = n
    THEN <<ed.normport1.name, ed.normport1.cp>>
    ELSE <<ed.normport2.name, ed.normport2.cp>>

\* node:name:cp, as DOT writes an endpoint of simple identifiers
PortText(n, spec) ==
    n.s \o (IF IsNone(spec[1]) THEN "" ELSE ":" \o spec[1].s)
           \o (IF IsNone(spec[2]) THEN "" ELSE ":" \o spec[2].s)

\* the edge e of the Dot, ed before the call and now ne, was amended as the
\* endpoint arguments p1 and p2 say, and the Dot is written accordingly
PortsAmended(D, ed, ne, p1, p2, lines) ==
    /\ StoredSpec(ne, ArgNode(p1))
          = IF p1.t = "port" THEN ArgSpec(p1) ELSE StoredSpec(ed, ArgNode(p1))
    /\ StoredSpec(ne, ArgNode(p2))
          = IF p2.t = "port" THEN ArgSpec(p2) ELSE StoredSpec(ed, ArgNode(p2))
    /\ EdgePair(ne) = <<ArgNode(p1), ArgNode(p2)>>
    /\ \E l \in 1..Len(lines) :
          /\ lines[l].kind = "edge"
          /\ lines[l].s
                = "    " \o PortText(ArgNode(p1), StoredSpec(ne, ArgNode(p1)))
                  \o (IF D.directed THEN " -> " ELSE " -- ")
                  \o PortText(ArgNode(p2), StoredSpec(ne, ArgNode(p2)))

C20_Step ==
    (/\ last'.op \in {"edge", "edge_update"}
     /\ last'.err = ""
     /\ EdgesOfPair(dots[last'.d],
                     <<ArgNode(last'.args[1]), ArgNode(last'.args[2])>>) # {})
    => /\ Len(dots'[last'.d].edgeobjs) = Len(dots[last'.d].edgeobjs)
       /\ \A e \in EdgesOfPair(dots[last'.d], <<ArgNode(last'.args[1]),
                                                 ArgNode(last'.args[2])>>) :
             PortsAmended(dots[last'.d], dots[last'.d].edgeobjs[e],
                          dots'[last'.d].edgeobjs[e], last'.args[1],
                          last'.args[2], Dot_str(dots', last'.d).lines)

\* C20: an edge call for an edge that exists stores, for each endpoint given
\* as a Port, the port name and compass point of that Port, and keeps, for
\* each endpoint given as a bare identifier, what was stored for that node;
\* the edge is then written with its endpoints in the order of the call,
\* which in a non-directed Dot may be the reverse of the order before
C20_PortsAmended == [][C20_Step]_vars

\* the edge a:p:s -- b:q of a non-directed Dot was amended by a call that
\* names b bare and first and a as Port("a"): it is now b:q -- a
C20_Witness ==
    /\ ~dots[1].directed
    /\ last.op = "edge" /\ last.err = "" /\ calls = MaxPortCalls - 2
    /\ last.args[1] = StrV("b")
    /\ last.args[2] = Port(StrV("a"), None, None)
    /\ Len(dots[1].edgeobjs) = 1
    /\ EdgePair(dots[1].edgeobjs[1]) = <<StrV("b"), StrV("a")>>
    /\ StoredSpec(dots[1].edgeobjs[1], StrV("b")) = <<StrV("q"), None>>
    /\ StoredSpec(dots[1].edgeobjs[1], StrV("a")) = <<None, None>>
    /\ \E l \in 1..Len(Dot_str(dots, 1).lines) :
          Dot_str(dots, 1).lines[l].s = "    b:q -- a"

(***************************************************************************)
(* Statement order: a Dot whose label, subgraphs, edge, node, attribute    *)
(* and defaults were given in that order, the reverse of the order of the  *)
(* output; the application adds statements to its Blocks and serializes.   *)
(***************************************************************************)
MaxOrderCalls == 3

Label == Attr("label", StrV("L"))

\* the Dot after graph(label="L"), subgraph("s") with a subgraph("t") of its
\* own, subgraph("u"), edge("a","b"), node("c"), graph(color="red"),
\* edge_default, node_default and graph_default calls
OrderedDot ==
    LET D1 == Block_graph(Dot_init(FALSE, FALSE, FALSE, None), 1, Label).dot
        D2 == Block_subgraph(D1, 1, StrV("s")).dot
        D3 == Block_subgraph(D2, 2, StrV("t")).dot
        D4 == Block_subgraph(D3, 1, StrV("u")).dot
        D5 == Block_edge(D4, 1, StrV("a"), StrV("b"), None, <<>>, -1).dot
        D6 == Block_node(D5, 1, StrV("c"), <<>>).dot
        D7 == Block_graph(D6, 1, Red).dot
        D8 == Block_edge_default(D7, 1, Blue).dot
        D9 == Block_node_default(D8, 1, Blue).dot
    IN  Block_graph_default(D9, 1, Blue).dot

InitOrder ==
    /\ dots = <<OrderedDot>>
    /\ addr = <<1, 2>>
    /\ ndisc = 0
    /\ calls = MaxOrderCalls
    /\ last = NoCall
    /\ out = <<NoCall>>

NextOrder ==
    \/ str(1)
    \/ \E b \in 2..4, a \in {Label, Red} : graph(1, b, a)
    \/ \E b \in 2..3 : node_default(1, b, Blue)
    \/ \E b \in 1..4, id \in {StrV("a"), StrV("d")} : node(1, b, id, <<>>)
    \/ \E b \in 1..4 : edge(1, b, StrV("b"), StrV("c"), None, <<>>)
    \/ \E b \in {1, 3} : subgraph(1, b, StrV("v"))

SpecOrder == InitOrder /\ [][NextOrder]_vars

\* the place of a statement of this kind among the statements of a Block
StatementRank(kind) ==
    CASE kind = "graph_default" -> 1
      [] kind = "node_default"  -> 2
      [] kind = "edge_default"  -> 3
      [] kind = "graph_attr"    -> 4
      [] kind = "node"          -> 5
      [] kind = "edge"          -> 6
      [] kind = "subgraph"      -> 7
      [] kind = "label"         -> 8
      [] kind = "end"           -> 9
      [] OTHER                  -> 0

\* the Block of D whose statement the line is: a subgraph statement belongs
\* to the parent of the subgraph it opens
StatementOf(D, line) ==
    IF line.kind = "subgraph" THEN D.blocks[line.b].parent ELSE line.b

\* Block b of D is the Block c or lies inside it
RECURSIVE IsInside(_, _, _)
IsInside(D, b, c) ==
    IF b = c THEN TRUE
    ELSE IF b <= 1 THEN FALSE
    ELSE IsInside(D, D.blocks[b].parent, c)

\* the statements of kind of Block b, in the order of the lines
StatementsOf(D, lines, b, kind) ==
    SelectSeq(lines, LAMBDA l : l.kind = kind /\ StatementOf(D, l) = b)

\* the statements of every Block are in the order of their kinds
KindsInOrder(D, lines) ==
    \A i, j \in 1..Len(lines) :
        (/\ i < j
         /\ StatementRank(lines[i].kind) > 0
         /\ StatementRank(lines[j].kind) > 0
         /\ StatementOf(D, lines[i]) = StatementOf(D, lines[j]))
        => StatementRank(lines[i].kind) <= StatementRank(lines[j].kind)

\* nodes, edges and subgraphs of every Block are written in the order of
\* the lists of the Block
DefinitionOrder(D, lines) ==
    \A b \in 1..Len(D.blocks) :
        /\ [i \in 1..Len(StatementsOf(D, lines, b, "node")) |->
              StatementsOf(D, lines, b, "node")[i].key] = D.blocks[b].nodes
        /\ [i \in 1..Len(StatementsOf(D, lines, b, "edge")) |->
              StatementsOf(D, lines, b, "edge")[i].e] = D.blocks[b].edges
        /\ [i \in 1..Len(StatementsOf(D, lines, b, "subgraph")) |->
              StatementsOf(D, lines, b, "subgraph")[i].b]
              = D.blocks[b].subgraphs

\* every subgraph is written whole, between its opening line and its
\* closing line: the lines between are statements of Blocks inside it and
\* no statement of a Block inside it is elsewhere
SubgraphsWhole(D, lines) ==
    \A c \in 2..Len(D.blocks) :
        \E o, e \in 1..Len(lines) :
            /\ o < e
            /\ lines[o].kind = "subgraph" /\ lines[o].b = c
            /\ lines[e].kind = "end" /\ lines[e].b = c
            /\ \A i \in 1..Len(lines) :
                  (lines[i].b > 0 /\ IsInside(D, lines[i].b, c))
                     = (o <= i /\ i <= e)

\* the label of a Block is the last statement before its closing line
LabelLast(D, lines) ==
    \A i \in 1..Len(lines) :
        lines[i].kind = "label" =>
            /\ i < Len(lines)
            /\ lines[i + 1].kind = "end"
            /\ lines[i + 1].b = lines[i].b

C21_Step ==
    (last'.op = "str" /\ last'.err = "") =>
        /\ KindsInOrder(dots[last'.d], out'[last'.d].lines)
        /\ DefinitionOrder(dots[last'.d], out'[last'.d].lines)
        /\ SubgraphsWhole(dots[last'.d], out'[last'.d].lines)
        /\ LabelLast(dots[last'.d], out'[last'.d].lines)

\* C21: in the output of str the statements of each Block are in the order
\* graph, node and edge defaults, graph attributes other than label, nodes
\* as listed, edges as listed, subgraphs as listed, each written whole
\* before the next, and the label just before the closing line
C21_StatementOrder == [][C21_Step]_vars

\* after a node d and a label for the subgraph s were added, the Dot, which
\* got its label first and its defaults last, is written defaults first
C21_Witness ==
    /\ last.op = "str" /\ last.err = "" /\ calls = MaxOrderCalls - 3
    /\ dots[1].blocks[1].nodes = <<StrV("c"), StrV("d")>>
    /\ dict_has(dots[1].blocks[2].grapha, "label")
    /\ [i \in 1..Len(out[1].lines) |-> out[1].lines[i].s]
          = <<"graph {", "", "    graph [color=blue]", "    node [color=blue]",
              "    edge [color=blue]", "", "    color=red", "", "    c",
              "    d", "", "    a -- b", "", "    subgraph s {",
              "        subgraph t {", "        }", "        label=\"L\"",
              "    }", "", "    subgraph u {", "    }", "",
              "    label=\"L\"", "}\n">>

(***************************************************************************)
(* Rendering: a Dot with an edge and a Dot that uses an undefined role;    *)
(* the file old.png exists.  The application renders, saves and shows      *)
(* them; the program cannot be started, exits with status 0 or 1, or is    *)
(* stopped at the timeout.                                                 *)
(***************************************************************************)
MaxRenderCalls == 2

Started == [kind |-> "exit", status |-> 0, stdout |-> Bytes("<svg/>"), stderr |-> Bytes("")]

Failed == [kind |-> "exit", status |-> 1, stdout |-> Bytes(""), stderr |-> Bytes("ErrorText")]

NotFound == [kind |-> "oserror", error |-> "FileNotFoundError"]

TimedOut(stderr) == [kind |-> "timeout", stderr |-> stderr]

\* the timeout argument of a call and what then becomes of the program
Runs ==
    {[timeout |-> None, oc |-> Started], [timeout |-> None, oc |-> Failed],
     [timeout |-> None, oc |-> NotFound],
     [timeout |-> IntV(1), oc |-> TimedOut(None)],
     [timeout |-> IntV(1), oc |-> TimedOut(Bytes("partial"))]}

InitRender ==
    /\ dots = <<Block_edge(Dot_init(FALSE, FALSE, FALSE, None), 1, StrV("a"),
                           StrV("b"), None, <<>>, -1).dot,
                Block_node(Dot_init(FALSE, FALSE, FALSE, None), 1, StrV("n"),
                           RoleR).dot>>
    /\ addr = <<1, 2>>
    /\ ndisc = 0
    /\ calls = MaxRenderCalls
    /\ last = NoCall
    /\ \E ipython \in BOOLEAN :
          out = [ipython |-> ipython,
                 files   |-> <<[k |-> "old.png", v |-> Bytes("OLD")]>>,
                 started |-> <<>>,
                 shown   |-> <<>>]

NextRender ==
    \/ \E r \in Runs :
          \/ to_rendered(1, StrV("dot"), StrV("PNG"), r.timeout, None, r.oc)
          \/ to_rendered(1, PathV("bin/neato"), StrV("svg"), r.timeout,
                         StrV("/opt"), r.oc)
    \/ to_rendered(2, StrV("dot"), StrV("png"), None, None, Started)
    \/ \E d \in 1..2, inline \in BOOLEAN :
          to_svg(d, StrV("dot"), inline, StrV("5,5"), Started)
    \/ \E f \in {"old.png", "new.SVG", "x.txt"}, exclusive \in BOOLEAN,
           r \in Runs \ {[timeout |-> None, oc |-> NotFound],
                         [timeout |-> IntV(1), oc |-> TimedOut(None)]} :
          save(1, StrV(f), StrV("dot"), exclusive, None, r.timeout, r.oc)
    \/ save(1, StrV("x.txt"), StrV("dot"), FALSE, StrV("PDF"), None, Started)
    \/ save(2, StrV("new.SVG"), StrV("dot"), FALSE, None, None, Started)
    \/ \E program \in {StrV("dot"), StrV("a&b"), PathV("dot")},
           r \in Runs \ {[timeout |-> IntV(1), oc |-> TimedOut(None)]} :
          show(1, program, StrV("svg"), r.timeout, r.oc)
    \/ show(1, StrV("dot"), StrV("PNG"), None, Started)
    \/ show(2, StrV("dot"), StrV("svg"), None, Started)

SpecRender == InitRender /\ [][NextRender]_vars

\* the outcome of the program in the call
OutcomeOf(call) == call.args[Len(call.args)]

\* the exception a to_rendered call has to raise for the outcome oc of the
\* program started as program with the timeout given, None for no exception
RaisedFor(program, timeout, oc) ==
    CASE oc.kind = "oserror" ->
           [type |-> "InvocationException",
            ex   |-> [program |-> program, cause |-> oc.error]]
      [] oc.kind = "timeout" ->
           [type |-> "TimeoutException",
            ex   |-> [program |-> program, timeout |-> timeout,
                      stderr  |-> StrV(IF IsNone(oc.stderr) THEN ""
                                       ELSE oc.stderr.s)]]
      [] oc.kind = "exit" /\ oc.status # 0 ->
           [type |-> "ProcessException",
            ex   |-> [program |-> program, status |-> oc.status,
                      stderr  |-> StrV(oc.stderr.s)]]
      [] OTHER -> [type |-> "", ex |-> None]

\* the program a to_rendered call runs
ProgramOf(call) ==
    IF IsNone(call.args[4]) THEN call.args[1].s
    ELSE call.args[4].s \o "/" \o call.args[1].s

C22_Step ==
    (last'.op = "to_rendered" /\ Dot_str(dots, last'.d).err = "") =>
        /\ last'.err = RaisedFor(ProgramOf(last'), last'.args[3],
                                 OutcomeOf(last')).type
        /\ last'.err # "" =>
              last'.ret = RaisedFor(ProgramOf(last'), last'.args[3],
                                    OutcomeOf(last')).ex
        /\ last'.err = "" =>
              /\ OutcomeOf(last').kind = "exit"
              /\ OutcomeOf(last').status = 0
              /\ last'.ret = OutcomeOf(last').stdout

\* C22: to_rendered raises InvocationException with the program and the
\* underlying error as cause when the program cannot be started,
\* ProcessException with program, status and the text of stderr when it
\* exits with a status other than 0, TimeoutException with program, timeout
\* and the text of stderr so far when it is stopped at the timeout, and
\* returns the bytes of stdout only when it exits with status 0
C22_OutcomeMapped == [][C22_Step]_vars

\* /opt/bin/neato was stopped at the timeout after writing to stderr
C22_Witness ==
    /\ last.op = "to_rendered" /\ last.err = "TimeoutException"
    /\ last.ret = [program |-> "/opt/bin/neato", timeout |-> IntV(1),
                   stderr |-> StrV("partial")]
    /\ Len(out.started) = 1
    /\ out.started[1].command = <<"/opt/bin/neato", "-Tsvg">>

\* the file name ends, in any case of letters, in a period and one of the
\* formats save infers, after at least one other character
HasKnownExtension(name) ==
    \E ext \in SaveFormats :
        /\ Len(name) > Len(ext) + 1
        /\ str_lower(SubSeq(name, Len(name) - Len(ext), Len(name)))
              = "." \o ext

\* what a save call has to raise, "" when it has to complete
SaveRaises(D, W, call) ==
    IF IsNone(call.args[4]) /\ ~HasKnownExtension(call.args[1].s)
    THEN "ValueError"
    ELSE IF Dot_str(D, call.d).err # "" THEN Dot_str(D, call.d).err
    ELSE IF RaisedFor("dot", call.args[5], OutcomeOf(call)).type # ""
    THEN RaisedFor("dot", call.args[5], OutcomeOf(call)).type
    ELSE IF call.args[3] /\ dict_has(W.files, call.args[1].s)
    THEN "FileExistsError"
    ELSE ""

C23_Step ==
    last'.op = "save" =>
        /\ last'.err = SaveRaises(dots, out, last')
        /\ last'.err # "" => out'.files = out.files
        /\ last'.err = "ValueError" => out'.started = out.started
        /\ last'.err = "" =>
              /\ OutcomeOf(last').kind = "exit" /\ OutcomeOf(last').status = 0
              /\ dict_has(out'.files, last'.args[1].s)
              /\ dict_get(out'.files, last'.args[1].s)
                    = OutcomeOf(last').stdout
              /\ dict_pop(out'.files, last'.args[1].s)
                    = dict_pop(out.files, last'.args[1].s)

ShowDisplays(W, call) ==
    IF ~W.ipython THEN <<>>
    ELSE IF RaisedFor("dot", call.args[3], OutcomeOf(call)).type # ""
    THEN <<"Markdown">>
    ELSE <<IF str_lower(call.args[2].s) = "svg" THEN "SVG" ELSE "Image">>

C24_Step ==
    (last'.op = "show" /\ Dot_str(dots, last'.d).err = "") =>
        /\ last'.err = IF ~out.ipython THEN "RuntimeError"
                       ELSE IF ShowDisplays(out, last') = <<"Markdown">>
                       THEN "ShowException" ELSE ""
        /\ Len(out'.shown) = Len(out.shown) + Len(ShowDisplays(out, last'))
        /\ SubSeq(out'.shown, 1, Len(out.shown)) = out.shown
        /\ ShowDisplays(out, last') # <<>> =>
              out'.shown[Len(out'.shown)].t = ShowDisplays(out, last')[1]

\* C24: with the IPython names imported, show displays one Markdown block
\* and raises ShowException when the program cannot be started, exits with
\* a status other than 0 or is stopped at the timeout, and displays one SVG
\* or Image and raises nothing when it exits with status 0; without them it
\* raises RuntimeError and displays nothing
C24_ShowExplains == [][C24_Step]_vars

RenderingCalls == {"to_rendered", "to_svg", "save", "show"}

\* the call gets as far as serializing the Dot: save has a format and show
\* has the IPython names
Serializes(W, call) ==
    /\ call.op \in RenderingCalls
    /\ call.op = "save" =>
          ~IsNone(call.args[4]) \/ HasKnownExtension(call.args[1].s)
    /\ call.op = "show" => W.ipython

C30_Step ==
    Serializes(out, last') =>
        IF Dot_str(dots, last'.d).err # ""
        THEN /\ last'.err = Dot_str(dots, last'.d).err
             /\ last'.err \notin {"InvocationException", "ShowException"}
             /\ last'.ret = None
             /\ out' = out
        ELSE OutcomeOf(last').kind # "oserror" =>
                /\ Len(out'.started) = Len(out.started) + 1
                /\ out'.started[Len(out'.started)].input
                      = Dot_text(dots, last'.d)

\* C30: to_rendered, to_svg, save and show serialize the Dot before they
\* start the program: when str of the Dot raises, the call raises that
\* error, no program is started, no file is written and nothing is
\* displayed; otherwise the program started is given the DOT text
C30_SerializedFirst == [][C30_Step]_vars

\* show of the Dot that uses an undefined role raised the RuntimeError of
\* the serialization, with IPython at hand, and left the world as it was
C30_Witness ==
    /\ last.op = "show" /\ last.d = 2 /\ last.err = "RuntimeError"
    /\ Dot_str(dots, 2).err = "RuntimeError"
    /\ calls = MaxRenderCalls - 1
    /\ out.ipython
    /\ out.started = <<>> /\ out.shown = <<>> /\ Len(out.files) = 1

(***************************************************************************)
(* Identifiers: a value is normalized, and the result is normalized again, *)
(* as happens when a normalized ID read from one Dot is given to a call.   *)
(***************************************************************************)
MaxIdCalls == 2

MaxIdLen == 2

IdAlphabet == {"a", "1", "_", "-", ".", " ", "\"", "\\", "\n"}

RECURSIVE WordsUpTo(_)
WordsUpTo(n) ==
    IF n = 0 THEN {""}
    ELSE WordsUpTo(n - 1)
         \cup {w \o c : w \in WordsUpTo(n - 1), c \in IdAlphabet}

IdInputs ==
    {StrV(w) : w \in WordsUpTo(MaxIdLen)}
    \cup {StrV(w) : w \in {"simple123", "this is quoted", "so-is-this",
                           "strict", "graph", "digraph", "node", "edge",
                           "subgraph", "Graph", "-1.5", "1.2.3", "a\r\nb",
                           "\"a\"d\""}}
    \cup {IntV(42), IntV(-7), BoolV(TRUE), Markup("b"), Other, N1}

InitIds ==
    /\ dots = <<>>
    /\ addr = <<1, 2>>
    /\ ndisc = 0
    /\ calls = MaxIdCalls
    /\ last = NoCall
    /\ out = NoCall

NextIds ==
    \/ last.op = "" /\ \E v \in IdInputs : normalize_id(v)
    \/ last.op = "_normalize" /\ last.err = "" /\ normalize_id(last.ret)

SpecIds == InitIds /\ [][NextIds]_vars

\* the number of places of s that hold a character of chars
CountOf(s, chars) == Cardinality({i \in 1..Len(s) : Char(s, i) \in chars})

\* letters, digits and underscores, not starting with a digit
IsWord(s) ==
    /\ s # ""
    /\ CountOf(s, Letters \cup Digits \cup {"_"}) = Len(s)
    /\ Char(s, 1) \notin Digits

\* a numeric literal: digits with at most one period among them, after an
\* optional minus sign
IsNumber(s) ==
    LET Unsigned(u) ==
            /\ CountOf(u, Digits \cup {"."}) = Len(u)
            /\ CountOf(u, {"."}) <= 1
            /\ CountOf(u, Digits) >= 1
    IN  IF s # "" /\ Char(s, 1) = "-" THEN Unsigned(SubSeq(s, 2, Len(s)))
        ELSE Unsigned(s)

IsBare(s) ==
    /\ IsWord(s) \/ IsNumber(s)
    /\ s \notin {"strict", "graph", "digraph", "node", "edge", "subgraph"}

\* s with every backslash and double quote preceded by a backslash and
\* every line end, "\r\n" or "\n", written as backslash and n
RECURSIVE Escaped(_)
Escaped(s) ==
    IF s = "" THEN ""
    ELSE IF Len(s) >= 2 /\ SubSeq(s, 1, 2) = "\r\n"
    THEN "\\n" \o Escaped(SubSeq(s, 3, Len(s)))
    ELSE (CASE Char(s, 1) = "\n" -> "\\n"
            [] Char(s, 1) = "\\" -> "\\\\"
            [] Char(s, 1) = "\"" -> "\\\""
            [] OTHER -> Char(s, 1))
         \o Escaped(SubSeq(s, 2, Len(s)))

\* the normalized ID that is normalized in this step is the result of the
\* normalization before
IsRenormalized ==
    /\ last.op = "_normalize" /\ last.err = ""
    /\ last'.op = "_normalize" /\ last'.args[1] = last.ret
    /\ last.ret.t = "str"

C25_OriginalStep == IsRenormalized => last'.ret = last.ret

\* C25 as stated: a text that is the result of a normalization is returned
\* unchanged by a further normalization
C25_Idempotent == [][C25_OriginalStep]_vars

C25_Step ==
    IsRenormalized =>
        /\ last'.err = ""
        /\ (last'.ret = last.ret) = IsBare(last.ret.s)
        /\ ~IsBare(last.ret.s) =>
              last'.ret = StrV("\"" \o Escaped(last.ret.s) \o "\"")

\* C25 amended: a text that is the result of a normalization is returned
\* unchanged by a further normalization exactly when it is bare; a result in
\* double quotes or markup brackets is quoted again, its quotes and
\* backslashes escaped
C25_BareIsFixed == [][C25_Step]_vars

\* simple123 was normalized twice and is still simple123
C25_Witness ==
    /\ last.op = "_normalize" /\ calls = MaxIdCalls - 2
    /\ last.args = <<StrV("simple123")>>
    /\ last.ret = StrV("simple123")

\* the text a str ID has to have in DOT
Emitted(s) == IF IsBare(s) THEN s ELSE "\"" \o Escaped(s) \o "\""

\* the lines str gives for a Dot whose only statement is the node id
NodeOnly(id) ==
    [i \in 1..Len(Dot_str(<<Block_node(Dot_init(FALSE, FALSE, FALSE, None),
                                       1, id, <<>>).dot>>, 1).lines) |->
        Dot_str(<<Block_node(Dot_init(FALSE, FALSE, FALSE, None),
                             1, id, <<>>).dot>>, 1).lines[i].s]

C26_Step ==
    (last'.op = "_normalize" /\ last'.args[1].t = "str") =>
        /\ last'.err = ""
        /\ last'.ret = StrV(Emitted(last'.args[1].s))
        /\ NodeOnly(last'.args[1])
              = <<"graph {", "    " \o Emitted(last'.args[1].s), "}\n">>

\* C26: a text ID is normalized, and written by str, as it is when it is a
\* word of letters, digits and underscores not starting with a digit, or a
\* numeric literal, and is none of strict, graph, digraph, node, edge,
\* subgraph; otherwise in double quotes, with every backslash and double
\* quote escaped and every line end ("\r\n" or "\n") written as \n
C26_BareOrQuoted == [][C26_Step]_vars

\* the reserved word graph was normalized to "graph", in double quotes
C26_Witness ==
    /\ last.op = "_normalize" /\ last.args = <<StrV("graph")>>
    /\ last.ret = StrV("\"graph\"")
    /\ NodeOnly(StrV("this is quoted"))[2] = "    \"this is quoted\""
    /\ NodeOnly(StrV("simple123"))[2] = "    simple123"

(***************************************************************************)
(* Serialization reads only.  Dot 1 uses the theme Dot 2, which uses the   *)
(* theme Dot 3; all of them define the role r, and Dot 3, which has no     *)
(* theme, has a node of role r or of the role q that nobody has defined.   *)
(***************************************************************************)
MaxReadCalls == 3

RoleQ == Attr("role", StrV("q"))

ReadDots(k) ==
    LET d1 == Block_edge(
                  Block_graph(
                      Block_node(
                          Dot_all_role(
                              WithSubgraph(Dot_init(FALSE, FALSE, FALSE,
                                                    None)),
                              StrV("r"), Red).dot,
                          1, StrV("n"), RoleR \o Attr("shape", StrV("oval"))
                      ).dot,
                      2, RoleR).dot,
                  2, StrV("n"), StrV("m"), None, RoleR, 1).dot
        d2 == Dot_all_role(Dot_init(FALSE, FALSE, FALSE, None),
                           StrV("r"), BlueBox).dot
        d3 == Block_node(
                  Block_graph(
                      Dot_all_role(Dot_init(FALSE, FALSE, FALSE, None),
                                   StrV("r"),
                                   Attr("style", StrV("bold"))).dot,
                      1, RoleR).dot,
                  1, StrV("k"), k).dot
    IN  Dot_use_theme(Dot_use_theme(<<d1, d2, d3>>, 2, DotRef(3)).dots,
                      1, DotRef(2)).dots

InitRead ==
    /\ \E k \in {RoleR, RoleQ} : dots = ReadDots(k)
    /\ addr = <<1, 2>>
    /\ ndisc = 0
    /\ calls = MaxReadCalls
    /\ last = NoCall
    /\ out = <<NoCall, NoCall, NoCall>>

NextRead ==
    \/ \E d \in 1..3 : str(d)
    \/ \E d \in {1, 3}, a \in {RoleQ, RoleRRed} : node(d, 1, StrV("n"), a)
    \/ \E d \in 1..3 : all_role(d, StrV("q"), <<>>)
    \/ graph(1, 2, RoleQ)

SpecRead == InitRead /\ [][NextRead]_vars

C27_Step == last'.op = "str" => dots' = dots

\* C27: str(dot), whether it returns or raises for a role that is not
\* defined, leaves every Dot as it was, with all its Blocks: no attribute
\* map, role map, node map, edge map or list of a Block differs, and no role
\* has been made by looking it up; for a Dot with a theme and for one without
C27_ReadOnly == [][C27_Step]_vars

\* Dot 1, which has themes, was serialized with its roles integrated, then
\* the serialization of Dot 3, which has none, raised for the role q, and
\* Dot 3 still has no node role q
C27_Witness ==
    /\ last.op = "str" /\ last.d = 3 /\ last.err = "RuntimeError"
    /\ dots[3].theme = 0 /\ ~dict_has(dots[3].noderoles, StrV("q"))
    /\ out[1].op = "str" /\ out[1].err = ""
    /\ \E i \in 1..Len(out[1].lines) :
          out[1].lines[i].s = "    n [shape=oval style=bold color=red]"
    /\ dict_has(dict_get(dots[1].nodemap, StrV("n")), "role")

(***************************************************************************)
(* The node and edge lists of the Blocks.  One Dot with a subgraph; nodes  *)
(* and edges are defined and amended through both Blocks, with attribute   *)
(* values that are IDs and one that is not, and tested for existence.      *)
(***************************************************************************)
MaxListCalls == 3

\* shape='box', color=object()
BoxThenBad == Attr("shape", StrV("box")) \o Attr("color", Other)

InitLists ==
    /\ \E directed \in BOOLEAN :
          dots = <<WithSubgraph(Dot_init(directed, FALSE, FALSE, None))>>
    /\ addr = <<1, 2>>
    /\ ndisc = 0
    /\ calls = MaxListCalls
    /\ last = NoCall
    /\ out = <<NoCall>>

NextLists ==
    \/ str(1)
    \/ \E b \in 1..2, id \in {StrV("a"), StrV("b")}, a \in {<<>>, BoxThenBad} :
          node(1, b, id, a)
    \/ \E b \in 1..2 : node_define(1, b, StrV("a"), Red)
    \/ node_update(1, 2, StrV("b"), BoxThenBad)
    \/ \E b \in 1..2, a \in {<<>>, BoxThenBad} :
          \/ edge(1, b, StrV("a"), StrV("b"), None, a)
          \/ edge(1, b, StrV("b"), StrV("a"), None, a)
    \/ edge_define(1, 2, StrV("a"), StrV("c"), None, Red)
    \/ edge_update(1, 1, StrV("b"), StrV("a"), None, Red)
    \/ \E id \in {StrV("a"), StrV("c"), Other} : node_is_defined(1, 2, id)
    \/ \E p \in {StrV("b"), StrV("c")} :
          edge_is_defined(1, 1, StrV("a"), p, None)
    \/ node_default(1, 2, Red \o RoleR)

SpecLists == InitLists /\ [][NextLists]_vars

\* the edge objects that the edge map of D holds
StoredEdges(D) == dict_values(D.edgemap)

\* how often the Blocks b..Len(D.blocks) list the edge object e
RECURSIVE TimesEdgeListed(_, _, _)
TimesEdgeListed(D, e, b) ==
    IF b > Len(D.blocks) THEN 0
    ELSE Cardinality({i \in 1..Len(D.blocks[b].edges) :
                         D.blocks[b].edges[i] = e})
         + TimesEdgeListed(D, e, b + 1)

\* every defined node and stored edge of D is listed once, by one Block,
\* and the Blocks list nothing else
ListedOnce(D) ==
    /\ \A key \in dict_keys(D.nodemap) : TimesListed(D, key, 1) = 1
    /\ \A e \in StoredEdges(D) : TimesEdgeListed(D, e, 1) = 1
    /\ \A b \in 1..Len(D.blocks) :
          /\ \A i \in 1..Len(D.blocks[b].nodes) :
                D.blocks[b].nodes[i] \in dict_keys(D.nodemap)
          /\ \A i \in 1..Len(D.blocks[b].edges) :
                D.blocks[b].edges[i] \in StoredEdges(D)

\* the output lines have one statement for every node and every edge of D
StatedOnce(D, lines) ==
    /\ \A key \in dict_keys(D.nodemap) :
          Cardinality({i \in 1..Len(lines) :
              lines[i].kind = "node" /\ lines[i].key = key}) = 1
    /\ \A e \in StoredEdges(D) :
          Cardinality({i \in 1..Len(lines) :
              lines[i].kind = "edge" /\ lines[i].e = e}) = 1
    /\ Cardinality({i \in 1..Len(lines) : lines[i].kind \in {"node", "edge"}})
          = Cardinality(dict_keys(D.nodemap)) + Cardinality(StoredEdges(D))

\* the defined nodes of D with the Blocks' node lists
NodesOf(D) ==
    <<dict_keys(D.nodemap), [b \in 1..Len(D.blocks) |-> D.blocks[b].nodes]>>

C28_Step ==
    /\ (last'.op = "str" /\ last'.err = "") =>
          StatedOnce(dots'[1], out'[1].lines)
    /\ last'.op \in {"edge", "edge_define", "edge_update",
                     "node_is_defined", "edge_is_defined"} =>
          \A d \in 1..Len(dots) : NodesOf(dots'[d]) = NodesOf(dots[d])

\* C28: at all times every defined node id is in the node list of one Block,
\* once, every stored edge is in the edge list of one Block, once, and the
\* Blocks list no node or edge that the maps of the Dot do not hold; str
\* writes one statement for each of them; and a call of edge, edge_define,
\* edge_update, node_is_defined or edge_is_defined defines no node
C28_ListedOnce ==
    /\ [](\A d \in 1..Len(dots) : ListedOnce(dots[d]))
    /\ [][C28_Step]_vars

\* the node a is defined, by a call through the Dot that raised, the
\* subgraph lists an edge whose nodes are not all defined, c is not, and
\* the Dot was serialized
C28_Witness ==
    /\ last.op = "str" /\ last.err = ""
    /\ dots[1].blocks[1].nodes = <<StrV("a")>>
    /\ dots[1].blocks[2].nodes = <<>>
    /\ Len(dots[1].blocks[2].edges) = 1
    /\ ~dict_has(dots[1].nodemap, StrV("c"))
    /\ dict_get(dots[1].nodemap, StrV("a"))
          = Attr("shape", StrV("box"))
    /\ \E i \in 1..Len(out[1].lines) : out[1].lines[i].s = "    a [shape=box]"

\* a call that changes the model raised ValueError: for an attribute value
\* that is not an ID, or for the attribute role given to node_default
RaisedForArgument(call) ==
    /\ call.err = "ValueError"
    /\ call.op \in {"node", "node_define", "node_update", "edge",
                    "edge_define", "edge_update", "node_default"}

C29_Step == RaisedForArgument(last') => dots' = dots

\* C29: a call of node, node_define, node_update, edge, edge_define,
\* edge_update or node_default that raises ValueError for one of its
\* arguments leaves the Dot as it was before the call: no node or edge is
\* newly defined and none of the other attributes of the call is assigned
C29_RaisingCallChangesNothing == [][C29_Step]_vars

====
